---- MODULE Spec2Model ----
(***************************************************************************)
(* Verification model of the acquisition-and-normalisation pipeline of     *)
(* android-recon: the result accumulator (lib/json_utils.py), the wireless *)
(* scan run and its conversion utilities (scanners/wifi_scanner.py) and    *)
(* the concurrent prober (scanners/network_scanner.py).                    *)
(*                                                                         *)
(* Python objects are modelled with their sharing: a dictionary entry that *)
(* holds a list holds a REFERENCE to it, so an envelope field is a         *)
(* reference that is read through the current heap (Deref).                *)
(***************************************************************************)
EXTENDS Integers, Sequences, FiniteSets, TLC

VARIABLES
    \* ---- ScanResultBuilder (json_utils.py:170-219)
    scan_type,      \* self.scan_type
    items,          \* self.items     : list
    metadata,       \* self.metadata  : dict (a function on its key set)
    errors,         \* self.errors    : list of str
    warnings,       \* self.warnings  : list of str
    envelopes,      \* the dictionaries returned so far by build() / create_scan_result()
    \* ---- run_wifi_scan (wifi_scanner.py:457-556)
    air,            \* environment: the records the scan sources can report in this run
    wpc,            \* position in run_wifi_scan
    interfaces,     \* the list returned by get_wireless_interfaces()
    widx,           \* index of the interface of the for loop (1-based)
    networks,       \* local `networks` of the loop body / of the no-interface branch
    all_networks,   \* local `all_networks`
    seen_bssids,    \* local `seen_bssids`
    calls,          \* history: the source invocations so far, [iface, source, n returned]
    candidates,     \* history: the records that reached the `for net in networks` dedup loop
    \* ---- conversion utilities (wifi_scanner.py:390-435)
    cv_pc, cv_a, cv_b, cv_ra, cv_rb,
    \* ---- discover_hosts / scan_host_ports (network_scanner.py:323-400)
    npc,            \* position in discover_hosts / scan_host_ports
    network,        \* argument `network`: [addr |-> <<a,b,c,d>>, prefix |-> p]
    ip_list,        \* local `ip_list` (discover_hosts) or `ports` (scan_host_ports)
    futures,        \* the submitted probes: target index -> "running" | "done" | "collected"
    outcome,        \* what each probe returns: target index -> BOOLEAN
    hosts,          \* local `hosts` / `open_ports`, appended by the orchestrating thread
    result,         \* the returned list ({} -> not returned yet is encoded by npc)
    \* ---- the output parsers (wifi_scanner.py:168-232, 260-342, 367-382;
    \*      bluetooth_scanner.py:310-323)
    p_tool,         \* which parser runs: "iw" | "iwlist" | "termux_wifi" | "termux_bt"
    p_lines,        \* result.stdout.split('\n') / the elements of the JSON array
    p_idx,          \* index of the next line / element (1-based)
    current_network,\* local `current_network`: None or the open record
    p_networks,     \* local `networks` / `devices`
    p_raised,       \* None, or the exception that left the parser
    \* ---- the deduplicators applied to a candidate list
    dd_pc,          \* which deduplicator, and whether it has been applied
    dd_in,          \* the candidate list
    dd_once,        \* its output on the list
    dd_twice,       \* its output on the list concatenated with itself
    \* ---- run_bluetooth_scan and scan_ble_devices (bluetooth_scanner.py:220-290,
    \*      384-513)
    tpc,            \* position in run_bluetooth_scan / scan_ble_devices
    adapters,       \* the list returned by get_bluetooth_adapters()
    scan_ble,       \* argument `scan_ble`
    tidx,           \* index of the adapter of the for loop (1-based)
    t_devices,      \* local `classic_devices` / `ble_devices` / `devices`
    all_devices,    \* local `all_devices`
    seen_addresses, \* local `seen_addresses` of run_bluetooth_scan
    tcalls,         \* history: the scans invoked so far, [adapter, tool, outcome, n]
    le,             \* scan_ble_devices: [devices, seen], its two locals
    le_read,        \* scan_ble_devices: lines read from the child so far
    proc,           \* the lescan child: "none" | "running" | "exited" | "terminated" | "killed"
    \* ---- run_network_scan (scanners/network_scanner.py) ----
    rpc,              \* position in run_network_scan
    port_scan,        \* argument `port_scan`
    r_interfaces,     \* local `interfaces`, the result of get_network_interfaces()
    r_idx,            \* index of the interface of the for loop (1-based)
    discovered_hosts, \* local `discovered_hosts`
    \* ---- merge_scans (lib/json_utils.py) ----
    mpc,            \* position: "idle" | "merge" | "merged"
    scans,          \* the argument `scans`, as it is now
    scans0,         \* history: the argument as it was at the call
    combined,       \* the returned dict
    \* ---- scan_wifi_networks_iw, its commands (scanners/wifi_scanner.py) ----
    ipc,            \* position in scan_wifi_networks_iw
    iw_cmds,        \* history: the steps taken so far, [cmd, how]
    iw_stdout,      \* the output handed to the parser, if one was
    iw_networks,    \* the returned list
    \* ---- the adapter enumerators of the three scanners ----
    epc,            \* position in the enumerator
    e_domain,       \* "wifi" | "bluetooth" | "network"
    e_listing,      \* what the primary command listed, if it listed
    e_trace,        \* history: the stages entered so far
    e_interfaces,   \* local `interfaces` / `adapters`, then the returned list
    \* ---- histories ----
    h_ops,          \* the add_* calls made on the builder, [op, key, value]
    le_signals,     \* what the finally block of scan_ble_devices did to the child
    \* ---- get_arp_table ----
    apc,            \* position in get_arp_table
    a_how,          \* how the `ip neigh show` invocation ends
    a_stdout,       \* the lines `ip neigh show` prints
    a_file,         \* the rows of /proc/net/arp after its header, None if unreadable
    arp_entries     \* the list get_arp_table builds

bvars == <<scan_type, items, metadata, errors, warnings, envelopes>>
wvars == <<air, wpc, interfaces, widx, networks, all_networks, seen_bssids, calls, candidates>>
cvars == <<cv_pc, cv_a, cv_b, cv_ra, cv_rb>>
nvars == <<npc, network, ip_list, futures, outcome, hosts, result>>
pvars == <<p_tool, p_lines, p_idx, current_network, p_networks, p_raised>>
dvars == <<dd_pc, dd_in, dd_once, dd_twice>>
tvars == <<tpc, adapters, scan_ble, tidx, t_devices, all_devices, seen_addresses,
           tcalls, le, le_read, proc>>
\* the variables of the parsers, of the deduplicators and of the Bluetooth run
rvars == <<rpc, port_scan, r_interfaces, r_idx, discovered_hosts>>
mvars == <<mpc, scans, scans0, combined>>
ivars == <<ipc, iw_cmds, iw_stdout, iw_networks>>
evars == <<epc, e_domain, e_listing, e_trace, e_interfaces>>
\* the variables of run_network_scan, of merge_scans, of the commands of
\* scan_wifi_networks_iw and of the adapter enumerators
hvars == <<h_ops, le_signals>>
avars == <<apc, a_how, a_stdout, a_file, arp_entries>>
yvars == <<rvars, mvars, ivars, evars, hvars, avars>>
xvars == <<pvars, dvars, tvars, yvars>>
vars  == <<bvars, wvars, cvars, nvars, xvars>>

\* ------------------------------------------------------------------------
\* Python values
\* ------------------------------------------------------------------------

\* Optional[int]: None is the empty set, a value v is {v}.
None == {}
Some(v) == {v}
TheVal(o) == CHOOSE v \in o : TRUE

EmptyDict == [k \in {} |-> 0]

\* d[key] = value on a dict
DictSet(d, key, value) ==
    [k \in (DOMAIN d) \cup {key} |-> IF k = key THEN value ELSE d[k]]

Range(s) == {s[i] : i \in DOMAIN s}

\* All sequences over S of length at most n
RECURSIVE SeqsUpTo(_, _)
SeqsUpTo(S, n) ==
    IF n = 0 THEN {<<>>}
    ELSE LET shorter == SeqsUpTo(S, n - 1)
         IN  shorter \cup {Append(s, x) : s \in {t \in shorter : Len(t) = n - 1}, x \in S}

\* ------------------------------------------------------------------------
\* Bounds
\* ------------------------------------------------------------------------
MaxItems == 2        \* add_item calls in a builder history
MaxMsgs == 1         \* add_error / add_warning calls in a builder history
MaxBuilds == 2       \* envelopes built in a builder history

\* ------------------------------------------------------------------------
\* lib/json_utils.py : create_scan_result, ScanResultBuilder
\* ------------------------------------------------------------------------

\* A reference to one of the builder's own objects, or to an object that only
\* the envelope holds (its value can then never change).
RefItems    == [obj |-> "self.items"]
RefMetadata == [obj |-> "self.metadata"]
RefErrors   == [obj |-> "self.errors"]
RefWarnings == [obj |-> "self.warnings"]
Owned(v)    == [obj |-> "owned", val |-> v]
Absent      == [obj |-> "absent"]

\* The object a reference denotes in the current state.
Deref(r) ==
    CASE r.obj = "self.items"    -> items
      [] r.obj = "self.metadata" -> metadata
      [] r.obj = "self.errors"   -> errors
      [] r.obj = "self.warnings" -> warnings
      [] r.obj = "owned"         -> r.val
      [] OTHER                   -> <<>>

\* len(data) of a list object
PyLen(r) == Len(Deref(r))

\* mutant: count taken before the data is final (off by one on a non-empty list)
create_scan_result_stale_count(st, data, is_list, md) ==
    [scan_type |-> st, version |-> "1.0.0", data |-> data,
     metadata |-> md, has_count |-> is_list,
     count |-> IF is_list /\ PyLen(data) > 0 THEN PyLen(data) - 1 ELSE 0,
     errors |-> Absent, warnings |-> Absent]

\* json_utils.py:20-48.  `data` and `md` are references: the dictionary stores
\* the caller's objects, it does not copy them.  md is what `metadata or {}`
\* evaluated to.  count is set iff data is a list.
create_scan_result(st, data, is_list, md) ==
    [scan_type |-> st, version |-> "1.0.0", data |-> data,
     metadata |-> md, has_count |-> is_list,
     count |-> IF is_list THEN PyLen(data) ELSE 0,
     errors |-> Absent, warnings |-> Absent]

\* `metadata or {}` (json_utils.py:41): an empty dict is falsy, so a new empty
\* dict is stored; a non-empty dict is stored itself.
MetadataOrNew(mdref) ==
    IF DOMAIN Deref(mdref) = {} THEN Owned(EmptyDict) ELSE mdref

\* json_utils.py:201-215, the value build() returns
BuildResult ==
    LET r == create_scan_result(scan_type, RefItems, TRUE, MetadataOrNew(RefMetadata))
    IN  [r EXCEPT !.errors   = IF errors # <<>> THEN RefErrors ELSE Absent,
                  !.warnings = IF warnings # <<>> THEN RefWarnings ELSE Absent]

\* What a holder of envelope e reads from it in the current state.
EnvData(e)     == Deref(e.data)
EnvMetadata(e) == Deref(e.metadata)
EnvErrors(e)   == Deref(e.errors)
EnvWarnings(e) == Deref(e.warnings)
EnvView(e) ==
    [data |-> EnvData(e), count |-> e.count, metadata |-> EnvMetadata(e),
     errors |-> EnvErrors(e), warnings |-> EnvWarnings(e),
     has_errors |-> e.errors # Absent, has_warnings |-> e.warnings # Absent]

\* json_utils.py:173-179
BuilderInit(st) ==
    /\ scan_type = st
    /\ items = <<>>
    /\ metadata = EmptyDict
    /\ errors = <<>>
    /\ warnings = <<>>
    /\ envelopes = <<>>

\* json_utils.py:181-184
add_item(item) ==
    /\ items' = Append(items, item)
    /\ UNCHANGED <<scan_type, metadata, errors, warnings, envelopes>>

\* mutant: a key that is already set keeps its first value
add_metadata_keeps_first(key, value) ==
    /\ metadata' = IF key \in DOMAIN metadata THEN metadata
                   ELSE DictSet(metadata, key, value)
    /\ UNCHANGED <<scan_type, items, errors, warnings, envelopes>>

\* json_utils.py:186-189
add_metadata(key, value) ==
    /\ metadata' = DictSet(metadata, key, value)
    /\ UNCHANGED <<scan_type, items, errors, warnings, envelopes>>

\* json_utils.py:191-194
add_error(error) ==
    /\ errors' = Append(errors, error)
    /\ UNCHANGED <<scan_type, items, metadata, warnings, envelopes>>

\* json_utils.py:196-199
add_warning(warning) ==
    /\ warnings' = Append(warnings, warning)
    /\ UNCHANGED <<scan_type, items, metadata, errors, envelopes>>

\* mutant: build() hands its messages over and starts again without them
build_drains_messages ==
    /\ envelopes' = Append(envelopes,
           [BuildResult EXCEPT !.errors = IF errors # <<>> THEN Owned(errors) ELSE Absent,
                               !.warnings = IF warnings # <<>> THEN Owned(warnings)
                                            ELSE Absent])
    /\ errors' = <<>> /\ warnings' = <<>>
    /\ UNCHANGED <<scan_type, items, metadata>>

\* json_utils.py:201-215; the returned dictionary is kept by the caller
build ==
    /\ envelopes' = Append(envelopes, BuildResult)
    /\ UNCHANGED <<scan_type, items, metadata, errors, warnings>>

\* ---- the builder driven by an arbitrary client ----
ItemValues == {"i1", "i2"}
MetaKeys   == {"k1", "k2"}
MetaValues == {"v1", "v2"}
Messages   == {"m1"}

IdleWifi ==
    /\ air = {} /\ wpc = "idle" /\ interfaces = <<>> /\ widx = 0 /\ networks = <<>>
    /\ all_networks = <<>> /\ seen_bssids = {} /\ calls = <<>> /\ candidates = <<>>
IdleConv ==
    /\ cv_pc = "idle" /\ cv_a = 0 /\ cv_b = 0 /\ cv_ra = None /\ cv_rb = None
IdleNet ==
    /\ npc = "idle" /\ network = [addr |-> <<0, 0, 0, 0>>, prefix |-> 0]
    /\ ip_list = <<>> /\ futures = <<>> /\ outcome = <<>> /\ hosts = <<>> /\ result = <<>>

IdleParse ==
    /\ p_tool = "idle" /\ p_lines = <<>> /\ p_idx = 0 /\ current_network = None
    /\ p_networks = <<>> /\ p_raised = None
IdleDedup ==
    /\ dd_pc = "idle" /\ dd_in = <<>> /\ dd_once = <<>> /\ dd_twice = <<>>
IdleBt ==
    /\ tpc = "idle" /\ adapters = <<>> /\ scan_ble = TRUE /\ tidx = 0
    /\ t_devices = <<>> /\ all_devices = <<>> /\ seen_addresses = {} /\ tcalls = <<>>
    /\ le = [devices |-> <<>>, seen |-> {}] /\ le_read = 0 /\ proc = "none"
IdleRun ==
    /\ rpc = "idle" /\ port_scan = FALSE /\ r_interfaces = <<>> /\ r_idx = 0
    /\ discovered_hosts = <<>>
IdleMerge ==
    /\ mpc = "idle" /\ scans = <<>> /\ scans0 = <<>> /\ combined = None
IdleIwCmds ==
    /\ ipc = "idle" /\ iw_cmds = <<>> /\ iw_stdout = None /\ iw_networks = <<>>
IdleEnum ==
    /\ epc = "idle" /\ e_domain = "none" /\ e_listing = None /\ e_trace = <<>>
    /\ e_interfaces = <<>>
IdleHist == h_ops = <<>> /\ le_signals = <<>>
IdleArp ==
    /\ apc = "idle" /\ a_how = "none" /\ a_stdout = <<>> /\ a_file = None
    /\ arp_entries = <<>>
IdleY == IdleRun /\ IdleMerge /\ IdleIwCmds /\ IdleEnum /\ IdleHist /\ IdleArp
IdleX == IdleParse /\ IdleDedup /\ IdleBt /\ IdleY

InitBuilder == BuilderInit("test") /\ IdleWifi /\ IdleConv /\ IdleNet /\ IdleX

AddItem ==
    /\ Len(items) < MaxItems
    /\ \E item \in ItemValues : add_item(item)
    /\ UNCHANGED <<wvars, cvars, nvars, xvars>>

AddMetadata ==
    /\ \E key \in MetaKeys, value \in MetaValues : add_metadata(key, value)
    /\ UNCHANGED <<wvars, cvars, nvars, xvars>>

AddError ==
    /\ Len(errors) < MaxMsgs
    /\ \E m \in Messages : add_error(m)
    /\ UNCHANGED <<wvars, cvars, nvars, xvars>>

AddWarning ==
    /\ Len(warnings) < MaxMsgs
    /\ \E m \in Messages : add_warning(m)
    /\ UNCHANGED <<wvars, cvars, nvars, xvars>>

Build ==
    /\ Len(envelopes) < MaxBuilds
    /\ build
    /\ UNCHANGED <<wvars, cvars, nvars, xvars>>

\* create_scan_result called directly (json_utils.py:20-48) with a list the
\* caller does not keep, or with a dict (then no count is set)
DirectData == {<<>>, <<"i1", "i2">>}
CreateScanResult ==
    /\ Len(envelopes) < MaxBuilds
    /\ \/ \E data \in DirectData :
             envelopes' = Append(envelopes,
                 create_scan_result("test", Owned(data), TRUE, Owned(EmptyDict)))
       \/ envelopes' = Append(envelopes,
                 create_scan_result("test", Owned([k \in {"i1"} |-> "v1"]), FALSE,
                                    Owned(EmptyDict)))
    /\ UNCHANGED <<scan_type, items, metadata, errors, warnings>>
    /\ UNCHANGED <<wvars, cvars, nvars, xvars>>

NextBuilder ==
    \/ AddItem
    \/ AddMetadata
    \/ AddError
    \/ AddWarning
    \/ Build
    \/ CreateScanResult

SpecBuilder == InitBuilder /\ [][NextBuilder]_vars

\* ------------------------------------------------------------------------
\* Claims on the result accumulator
\* ------------------------------------------------------------------------

\* The object a reference denotes in the next state of a step.
DerefNext(r) ==
    CASE r.obj = "self.items"    -> items'
      [] r.obj = "self.metadata" -> metadata'
      [] r.obj = "self.errors"   -> errors'
      [] r.obj = "self.warnings" -> warnings'
      [] r.obj = "owned"         -> r.val
      [] OTHER                   -> <<>>

EnvViewNext(e) ==
    [data |-> DerefNext(e.data), count |-> e.count, metadata |-> DerefNext(e.metadata),
     errors |-> DerefNext(e.errors), warnings |-> DerefNext(e.warnings),
     has_errors |-> e.errors # Absent, has_warnings |-> e.warnings # Absent]

\* C1: whenever build() or create_scan_result() returns an envelope whose data
\* is a list, whatever add_item / add_metadata / add_error / add_warning calls
\* came before, the envelope's count equals the number of elements of its data
\* at the moment it is returned (and count is set exactly for list data).
C1_CountEqualsLenAtBuild ==
    [][Len(envelopes') > Len(envelopes) =>
          LET e == envelopes'[Len(envelopes')]
          IN  e.has_count => e.count = Len(DerefNext(e.data))]_vars

\* C1 witness: a built envelope of two items, after add_item, add_metadata and
\* add_warning calls, with count 2.
C1_Witness ==
    \E i \in DOMAIN envelopes :
        /\ envelopes[i].data = RefItems
        /\ envelopes[i].count = 2
        /\ Len(EnvData(envelopes[i])) = 2
        /\ DOMAIN EnvMetadata(envelopes[i]) # {}
        /\ envelopes[i].warnings # Absent

\* C2 (as claimed): no builder operation after build() changes what an already
\* returned envelope holds: its data, count, metadata, errors and warnings read
\* the same before and after every step, and count = len(data) keeps holding.
C2_EnvelopeImmutableOnceBuilt ==
    [][\A i \in DOMAIN envelopes :
          /\ EnvViewNext(envelopes[i]) = EnvView(envelopes[i])
          /\ envelopes[i].has_count =>
                 envelopes[i].count = Len(DerefNext(envelopes[i].data))]_vars

\* C13: build() changes none of the builder's items, metadata, errors and
\* warnings, and a second build() called right after it, with no builder
\* operation in between, returns an envelope with equal data, metadata, count,
\* errors and warnings (present or absent alike).
C13_BuildIdempotent ==
    [][(Len(envelopes') > Len(envelopes) /\ envelopes'[Len(envelopes')].data = RefItems)
          => /\ UNCHANGED <<items, metadata, errors, warnings>>
             /\ EnvViewNext(BuildResult') = EnvViewNext(envelopes'[Len(envelopes')])]_vars

\* C13 witness: two envelopes built one after the other from a builder holding
\* two items, a metadata entry, an error and a warning.
C13_Witness ==
    /\ Len(envelopes) = 2
    /\ envelopes[1].data = RefItems /\ envelopes[2].data = RefItems
    /\ envelopes[1].count = 2 /\ envelopes[2].count = 2
    /\ EnvView(envelopes[1]) = EnvView(envelopes[2])
    /\ DOMAIN metadata # {} /\ envelopes[1].errors # Absent
    /\ envelopes[2].warnings # Absent

\* ------------------------------------------------------------------------
\* scanners/wifi_scanner.py : conversion utilities
\* ------------------------------------------------------------------------
FreqMargin == 10     \* MHz tried below and above each band
ChanMargin == 5      \* channels tried below 0 and above 165
DbmMargin == 15      \* dBm tried below -90 and above 0

\* mutant: 2484 MHz converted like the other 2.4 GHz frequencies
freq_to_channel_no_14(freq) ==
    IF freq = 0 THEN None
    ELSE IF 2412 <= freq /\ freq <= 2484 THEN Some((freq - 2407) \div 5)
    ELSE IF 5180 <= freq /\ freq <= 5825 THEN Some((freq - 5000) \div 5)
    ELSE None

\* wifi_scanner.py:390-405.  `not freq` is true of 0 (and of None).
freq_to_channel(freq) ==
    IF freq = 0 THEN None
    ELSE IF 2412 <= freq /\ freq <= 2484
         THEN IF freq = 2484 THEN Some(14) ELSE Some((freq - 2407) \div 5)
    ELSE IF 5180 <= freq /\ freq <= 5825
         THEN Some((freq - 5000) \div 5)
    ELSE None

\* mutant: the special case of channel 14 forgotten
channel_to_freq_no_14(channel) ==
    IF 1 <= channel /\ channel <= 14 THEN Some(2407 + channel * 5)
    ELSE IF 36 <= channel /\ channel <= 165 THEN Some(5000 + channel * 5)
    ELSE None

\* wifi_scanner.py:408-420
channel_to_freq(channel) ==
    IF 1 <= channel /\ channel <= 13 THEN Some(2407 + channel * 5)
    ELSE IF channel = 14 THEN Some(2484)
    ELSE IF 36 <= channel /\ channel <= 165 THEN Some(5000 + channel * 5)
    ELSE None

\* wifi_scanner.py:435 is evaluated in binary64: (-30 - dbm) / 60 * 100 for
\* k = -30 - dbm in 1..59.  Its exact value is 5k/3; int() of 100 minus it
\* differs from the exact truncation only where 5k/3 is an integer and the
\* double product lies above it, which of the multiples of 3 in 1..59 is the
\* case for k = 33 alone (33/60*100 = 55.00000000000001).
Binary64ProductAbove == {33}

\* wifi_scanner.py:435, int(100 - ((-30 - dbm) / 60 * 100)) for -90 < dbm < -30
Interpolate(dbm) ==
    LET k == -30 - dbm
        exact == (300 - 5 * k) \div 3
    IN  IF k \in Binary64ProductAbove THEN exact - 1 ELSE exact

\* wifi_scanner.py:423-435 on integer dBm.  `not dbm` is true of 0.
dbm_to_quality(dbm) ==
    IF dbm = 0 THEN 0
    ELSE IF dbm >= -30 THEN 100
    ELSE IF dbm <= -90 THEN 0
    ELSE Interpolate(dbm)

FreqInputs == {0} \cup ((2412 - FreqMargin)..(2484 + FreqMargin))
                  \cup ((5180 - FreqMargin)..(5825 + FreqMargin))
ChanInputs == (0 - ChanMargin)..(165 + ChanMargin)
DbmInputs  == (-90 - DbmMargin)..DbmMargin

IdleBuilder == BuilderInit("none")

InitConv ==
    /\ IdleBuilder /\ IdleWifi /\ IdleNet /\ IdleX
    /\ cv_ra = None /\ cv_rb = None
    /\ \/ cv_pc = "freq" /\ cv_a \in FreqInputs /\ cv_b = 0
       \/ cv_pc = "chan" /\ cv_a \in ChanInputs /\ cv_b = 0
       \/ cv_pc = "dbm" /\ cv_a \in DbmInputs /\ cv_b \in DbmInputs

\* freq_to_channel(f)
FreqToChannel ==
    /\ cv_pc = "freq"
    /\ cv_ra' = freq_to_channel(cv_a)
    /\ cv_pc' = "freq_ch"
    /\ UNCHANGED <<cv_a, cv_b, cv_rb, bvars, wvars, nvars, xvars>>

\* channel_to_freq(freq_to_channel(f)); comparing None with an int raises TypeError
ChannelToFreqBack ==
    /\ cv_pc = "freq_ch"
    /\ \/ /\ cv_ra # None
          /\ cv_rb' = channel_to_freq(TheVal(cv_ra))
          /\ cv_pc' = "freq_rt"
       \/ /\ cv_ra = None
          /\ cv_rb' = None
          /\ cv_pc' = "TypeError"
    /\ UNCHANGED <<cv_a, cv_b, cv_ra, bvars, wvars, nvars, xvars>>

\* channel_to_freq(c)
ChannelToFreq ==
    /\ cv_pc = "chan"
    /\ cv_ra' = channel_to_freq(cv_a)
    /\ cv_pc' = "chan_fr"
    /\ UNCHANGED <<cv_a, cv_b, cv_rb, bvars, wvars, nvars, xvars>>

\* freq_to_channel(channel_to_freq(c)); freq_to_channel(None) is None
FreqToChannelBack ==
    /\ cv_pc = "chan_fr"
    /\ cv_rb' = IF cv_ra = None THEN None ELSE freq_to_channel(TheVal(cv_ra))
    /\ cv_pc' = "chan_rt"
    /\ UNCHANGED <<cv_a, cv_b, cv_ra, bvars, wvars, nvars, xvars>>

\* dbm_to_quality(a), dbm_to_quality(b)
DbmToQuality ==
    /\ cv_pc = "dbm"
    /\ cv_ra' = Some(dbm_to_quality(cv_a))
    /\ cv_rb' = Some(dbm_to_quality(cv_b))
    /\ cv_pc' = "dbm_done"
    /\ UNCHANGED <<cv_a, cv_b, bvars, wvars, nvars, xvars>>

NextConv ==
    \/ FreqToChannel
    \/ ChannelToFreqBack
    \/ ChannelToFreq
    \/ FreqToChannelBack
    \/ DbmToQuality

SpecConv == InitConv /\ [][NextConv]_vars

\* ------------------------------------------------------------------------
\* Claims on the conversion utilities
\* ------------------------------------------------------------------------

\* The frequencies the claim enumerates: 2412, 2417, ... in steps of 5 up to
\* 2484 (the last one is 2482), and 5180, 5185, ..., 5825.
C7_ClaimedFreqs ==
    {2412 + 5 * k : k \in 0..14} \cup {5180 + 5 * k : k \in 0..129}

\* The centre frequencies of channels 1..13, of channel 14, and 5180..5825 in
\* steps of 5.
C7_ChannelFreqs ==
    {2412 + 5 * k : k \in 0..12} \cup {2484} \cup {5180 + 5 * k : k \in 0..129}

\* C7 (as claimed): channel_to_freq(freq_to_channel(f)) = f for every f of
\* 2412, 2417, ..., (steps of 5 up to 2484) and of 5180, 5185, ..., 5825.
C7_RoundTripAsClaimed ==
    (cv_pc \in {"freq_rt", "TypeError"} /\ cv_a \in C7_ClaimedFreqs)
        => (cv_pc = "freq_rt" /\ cv_rb = Some(cv_a))

\* C7 (amended): channel_to_freq(freq_to_channel(f)) = f for every f that is
\* the frequency of a channel: 2412..2472 in steps of 5, 2484, and 5180..5825
\* in steps of 5.
C7_RoundTripOnChannelFreqs ==
    (cv_pc \in {"freq_rt", "TypeError"} /\ cv_a \in C7_ChannelFreqs)
        => (cv_pc = "freq_rt" /\ cv_rb = Some(cv_a))

\* C7 witness: the round trip was computed for 2484 MHz (channel 14).
C7_Witness ==
    cv_pc = "freq_rt" /\ cv_a = 2484 /\ cv_ra = Some(14) /\ cv_rb = Some(2484)

\* C8 (as claimed): for all integer dBm a <= b, 0 and positive values included,
\* dbm_to_quality(a) <= dbm_to_quality(b), and both results lie in 0..100.
C8_DbmToQualityMonotone ==
    (cv_pc = "dbm_done" /\ cv_a <= cv_b)
        => /\ TheVal(cv_ra) <= TheVal(cv_rb)
           /\ TheVal(cv_ra) \in 0..100
           /\ TheVal(cv_rb) \in 0..100

\* ------------------------------------------------------------------------
\* scanners/network_scanner.py : discover_hosts, scan_host_ports
\* ------------------------------------------------------------------------
\* An IPv4 address is its four octets <<a, b, c, d>>; the numeric order of
\* addresses is the lexicographic order of the octets.  A network is
\* [addr, prefix]; num_addresses is 2^(32 - prefix).

Pow2(n) == IF n = 0 THEN 1 ELSE IF n = 1 THEN 2 ELSE IF n = 2 THEN 4
           ELSE IF n = 3 THEN 8 ELSE IF n = 4 THEN 16 ELSE IF n = 5 THEN 32
           ELSE IF n = 6 THEN 64 ELSE IF n = 7 THEN 128 ELSE 256

\* the number of leading bits of octet i (1..4) that a prefix of length p keeps
KeepBits(p, i) ==
    LET k == p - 8 * (i - 1) IN IF k < 0 THEN 0 ELSE IF k > 8 THEN 8 ELSE k

\* ipaddress.ip_network(..., strict=False).network_address: host bits cleared
network_address(addr, p) ==
    [i \in 1..4 |-> (addr[i] \div Pow2(8 - KeepBits(p, i))) * Pow2(8 - KeepBits(p, i))]

\* ipaddress.ip_network(network, strict=False), network_scanner.py:338;
\* a prefix length outside 0..32 raises ValueError
ValidNetwork(n) == n.prefix \in 0..32
ip_network(n) == [addr |-> network_address(n.addr, n.prefix), prefix |-> n.prefix]

\* mutant: the limit taken one bit too high (512 addresses pass)
TooLarge_512(net) == 32 - net.prefix > 9

\* network_scanner.py:344, net.num_addresses > 256, i.e. 2^(32 - prefix) > 2^8
TooLarge(net) == 32 - net.prefix > 8

\* network_scanner.py:347, ip_network(f"{net.network_address}/24", strict=False)
FirstSlash24(net) == ip_network([addr |-> net.addr, prefix |-> 24])

\* list(net.hosts()) for a network whose addresses share their first two
\* octets (prefix >= 16; the code calls it with prefix >= 24 only): a /32 yields
\* its address, a /31 both addresses, any other network every address but the
\* network and the broadcast address, in ascending order.
Hosts(net) ==
    LET base == net.addr[3] * 256 + net.addr[4]
        size == Pow2(8 - KeepBits(net.prefix, 3)) * Pow2(8 - KeepBits(net.prefix, 4))
        lo   == IF net.prefix >= 31 THEN base ELSE base + 1
        hi   == IF net.prefix >= 31 THEN base + size - 1 ELSE base + size - 2
    IN  [j \in 1..(hi - lo + 1) |->
            <<net.addr[1], net.addr[2], (lo + j - 1) \div 256, (lo + j - 1) % 256>>]

\* network_scanner.py:337-349, the target list of discover_hosts for a valid network
TargetList(n) ==
    LET net == ip_network(n)
    IN  Hosts(IF TooLarge(net) THEN FirstSlash24(net) ELSE net)

\* numeric order of two addresses (key=ipaddress.ip_address(x['ip']))
IpLess(x, y) ==
    \E i \in 1..4 : x[i] < y[i] /\ \A j \in 1..(i - 1) : x[j] = y[j]

\* sorted(seq, key=...), a stable sort; Before(x, y) is key(x) < key(y).
\* The element at index i goes to the place after every element with a smaller
\* key and every earlier element with an equal key.
SortedBy(seq, Before(_, _)) ==
    LET rank(i) == 1 + Cardinality({j \in DOMAIN seq :
                          \/ Before(seq[j], seq[i])
                          \/ (~Before(seq[i], seq[j]) /\ j < i)})
    IN  [k \in DOMAIN seq |-> seq[CHOOSE i \in DOMAIN seq : rank(i) = k]]

HostBefore(x, y) == IpLess(x.ip, y.ip)
PortBefore(x, y) == x.port < y.port

\* mutant: the list returned in completion order
SortedHosts_unsorted(h) == h

\* network_scanner.py:367
SortedHosts(h) == SortedBy(h, HostBefore)

\* mutant: the list returned in completion order
SortedPorts_unsorted(h) == h

\* network_scanner.py:400
SortedPorts(h) == SortedBy(h, PortBefore)

\* network_scanner.py:34
COMMON_PORTS == <<21, 22, 23, 25, 53, 80, 110, 143, 443, 445, 993, 995, 3306, 3389,
                  5432, 8080, 8443>>

\* network_scanner.py:403-424
get_service_name(port) ==
    CASE port = 21 -> "ftp" [] port = 22 -> "ssh" [] port = 23 -> "telnet"
      [] port = 25 -> "smtp" [] port = 53 -> "dns" [] port = 80 -> "http"
      [] port = 110 -> "pop3" [] port = 143 -> "imap" [] port = 443 -> "https"
      [] port = 445 -> "smb" [] port = 993 -> "imaps" [] port = 995 -> "pop3s"
      [] port = 3306 -> "mysql" [] port = 3389 -> "rdp" [] port = 5432 -> "postgresql"
      [] port = 8080 -> "http-alt" [] port = 8443 -> "https-alt"
      [] OTHER -> "unknown"

\* ---- the networks and port lists the prober is driven with ----
OctetsA == {10, 192}
OctetsB == {0, 168, 255}
OctetsC == {0, 1, 255}
OctetsD == {0, 1, 77, 255}
AllNetworks ==
    [addr : {<<a, b, c, d>> : a \in OctetsA, b \in OctetsB, c \in OctetsC, d \in OctetsD},
     prefix : 0..33]
\* networks of one or two hosts, for the interleavings of the probes
SmallNetworks ==
    [addr : {<<10, 0, 0, 9>>, <<192, 168, 1, 77>>}, prefix : {30, 31, 32, 33}]
\* the argument `ports`: lists out of order, with a port given twice and with a
\* port of no known service, and the head of the default list
MaxPorts == 3
PortLists == {<<443, 22, 80>>, <<80, 9999, 80>>, <<>>, SubSeq(COMMON_PORTS, 1, MaxPorts)}
Latencies == {None, Some(1)}
\* how the `ping` child ends: executable missing, killed at timeout + 2,
\* non-zero exit, exit 0
PingEnds == {"missing", "timeout", "nonzero", "success"}
\* how connect_ex ends: 0, an error number (a timed-out connect included), or
\* the socket calls raise OSError
ConnectEnds == {"connected", "errno", "OSError"}
\* how socket.gethostbyaddr ends: a name, or it raises herror / gaierror
Lookups == {"host.lan", "herror", "gaierror"}

\* network_scanner.py:253-281: (is_alive, latency_ms) of the tuple returned;
\* TimeoutExpired and FileNotFoundError are caught
ping_host(how, latency) ==
    IF how = "success" THEN [alive |-> TRUE, latency |-> latency]
    ELSE [alive |-> FALSE, latency |-> None]

\* network_scanner.py:284-303: is_open of the tuple returned; socket.error and
\* OSError are caught
scan_port(how) == [alive |-> how = "connected", latency |-> None]

\* network_scanner.py:306-320: the name, or None when the lookup raises
get_hostname(lookup) == IF lookup \in {"herror", "gaierror"} THEN "None" ELSE lookup

IdleNetWith(n) ==
    /\ network = n /\ ip_list = <<>> /\ futures = <<>> /\ outcome = <<>>
    /\ hosts = <<>> /\ result = <<>>

\* discover_hosts is called with any network
InitTargets ==
    /\ IdleBuilder /\ IdleWifi /\ IdleConv /\ IdleX
    /\ npc = "discover_hosts"
    /\ \E n \in AllNetworks : IdleNetWith(n)

\* discover_hosts is called with a small network, or scan_host_ports with a
\* list of ports
InitProbe ==
    /\ IdleBuilder /\ IdleWifi /\ IdleConv /\ IdleX
    /\ \/ npc = "discover_hosts" /\ \E n \in SmallNetworks : IdleNetWith(n)
       \/ /\ npc = "scan_host_ports"
          /\ IdleNetWith([addr |-> <<10, 0, 0, 9>>, prefix |-> 32])

\* network_scanner.py:335-354: parse the network, cap it, enumerate the targets
\* and submit one ping_host per target to the pool
DiscoverHostsStart ==
    /\ npc = "discover_hosts"
    /\ \/ /\ ~ValidNetwork(network)             \* ValueError: return hosts (empty)
          /\ npc' = "returned"
          /\ UNCHANGED <<ip_list, futures, outcome>>
       \/ /\ ValidNetwork(network)
          /\ ip_list' = TargetList(network)
          /\ futures' = [i \in DOMAIN TargetList(network) |-> "pending"]
          /\ outcome' = [i \in DOMAIN TargetList(network) |-> [alive |-> FALSE, latency |-> None]]
          /\ npc' = "dh_collecting"
    /\ UNCHANGED <<network, hosts, result, bvars, wvars, cvars, xvars>>

\* network_scanner.py:382-388: submit one scan_port per port to the pool
ScanHostPortsStart ==
    /\ npc = "scan_host_ports"
    /\ \E ports \in PortLists :
          /\ ip_list' = ports
          /\ futures' = [i \in DOMAIN ports |-> "pending"]
          /\ outcome' = [i \in DOMAIN ports |-> [alive |-> FALSE, latency |-> None]]
    /\ npc' = "sp_collecting"
    /\ UNCHANGED <<network, hosts, result, bvars, wvars, cvars, xvars>>

\* mutant: the worker appends the record of a live host itself
PingHostReturns_appends(i) ==
    /\ npc = "dh_collecting"
    /\ futures[i] = "pending"
    /\ \E how \in PingEnds, l \in Latencies :
          /\ outcome' = [outcome EXCEPT ![i] = ping_host(how, l)]
          /\ hosts' = IF how = "success"
                      THEN Append(hosts, [ip |-> ip_list[i], alive |-> TRUE,
                                          latency_ms |-> l, hostname |-> "None"])
                      ELSE hosts
    /\ futures' = [futures EXCEPT ![i] = "done"]
    /\ UNCHANGED <<npc, network, ip_list, result, bvars, wvars, cvars, xvars>>

\* a worker thread finishes ping_host (network_scanner.py:253-281): it returns
\* (ip, True, latency) or (ip, False, None) and writes nothing else
PingHostReturns(i) ==
    /\ npc = "dh_collecting"
    /\ futures[i] = "pending"
    /\ \E how \in PingEnds, l \in Latencies :
          outcome' = [outcome EXCEPT ![i] = ping_host(how, l)]
    /\ futures' = [futures EXCEPT ![i] = "done"]
    /\ UNCHANGED <<npc, network, ip_list, hosts, result, bvars, wvars, cvars, xvars>>

\* a worker thread finishes scan_port (network_scanner.py:284-303): (port, is_open)
ScanPortReturns(i) ==
    /\ npc = "sp_collecting"
    /\ futures[i] = "pending"
    /\ \E how \in ConnectEnds : outcome' = [outcome EXCEPT ![i] = scan_port(how)]
    /\ futures' = [futures EXCEPT ![i] = "done"]
    /\ UNCHANGED <<npc, network, ip_list, hosts, result, bvars, wvars, cvars, xvars>>

\* mutant: a host whose reverse lookup failed is left out
CollectHost_needs_hostname(i) ==
    /\ npc = "dh_collecting"
    /\ futures[i] = "done"
    /\ futures' = [futures EXCEPT ![i] = "collected"]
    /\ \/ /\ outcome[i].alive
          /\ hosts' = Append(hosts, [ip |-> ip_list[i], alive |-> TRUE,
                                     latency_ms |-> outcome[i].latency,
                                     hostname |-> "host.lan"])
       \/ /\ outcome[i].alive
          /\ UNCHANGED hosts
       \/ /\ ~outcome[i].alive
          /\ UNCHANGED hosts
    /\ UNCHANGED <<npc, network, ip_list, outcome, result, bvars, wvars, cvars, xvars>>

\* network_scanner.py:356-365: as_completed yields a finished future and the
\* orchestrating thread appends a record if the host is alive
CollectHost(i) ==
    /\ npc = "dh_collecting"
    /\ futures[i] = "done"
    /\ futures' = [futures EXCEPT ![i] = "collected"]
    /\ \/ /\ outcome[i].alive
          /\ \E lookup \in Lookups :
                hosts' = Append(hosts, [ip |-> ip_list[i], alive |-> TRUE,
                                        latency_ms |-> outcome[i].latency,
                                        hostname |-> get_hostname(lookup)])
       \/ /\ ~outcome[i].alive
          /\ UNCHANGED hosts
    /\ UNCHANGED <<npc, network, ip_list, outcome, result, bvars, wvars, cvars, xvars>>

\* network_scanner.py:390-398
CollectPort(i) ==
    /\ npc = "sp_collecting"
    /\ futures[i] = "done"
    /\ futures' = [futures EXCEPT ![i] = "collected"]
    /\ \/ /\ outcome[i].alive
          /\ hosts' = Append(hosts, [port |-> ip_list[i],
                                     service |-> get_service_name(ip_list[i]),
                                     protocol |-> "tcp"])
       \/ /\ ~outcome[i].alive
          /\ UNCHANGED hosts
    /\ UNCHANGED <<npc, network, ip_list, outcome, result, bvars, wvars, cvars, xvars>>

\* network_scanner.py:367: every future has been yielded, the pool is shut down
DiscoverHostsReturn ==
    /\ npc = "dh_collecting"
    /\ \A i \in DOMAIN futures : futures[i] = "collected"
    /\ result' = SortedHosts(hosts)
    /\ npc' = "dh_returned"
    /\ UNCHANGED <<network, ip_list, futures, outcome, hosts, bvars, wvars, cvars, xvars>>

\* network_scanner.py:400
ScanHostPortsReturn ==
    /\ npc = "sp_collecting"
    /\ \A i \in DOMAIN futures : futures[i] = "collected"
    /\ result' = SortedPorts(hosts)
    /\ npc' = "sp_returned"
    /\ UNCHANGED <<network, ip_list, futures, outcome, hosts, bvars, wvars, cvars, xvars>>

\* the target computation of discover_hosts alone, over every prefix length
NextTargets == DiscoverHostsStart

SpecTargets == InitTargets /\ [][NextTargets]_vars

NextProbe ==
    \/ DiscoverHostsStart
    \/ ScanHostPortsStart
    \/ \E i \in DOMAIN futures : PingHostReturns(i)
    \/ \E i \in DOMAIN futures : ScanPortReturns(i)
    \/ \E i \in DOMAIN futures : CollectHost(i)
    \/ \E i \in DOMAIN futures : CollectPort(i)
    \/ DiscoverHostsReturn
    \/ ScanHostPortsReturn

SpecProbe == InitProbe /\ [][NextProbe]_vars

\* ------------------------------------------------------------------------
\* Claims on the concurrent prober
\* ------------------------------------------------------------------------

\* the last octets of the usable hosts of a block of at most 256 addresses
\* whose network address ends in d0: a /32 has one, a /31 two, any other block
\* all but its first and last address
C9_UsableLastOctets(p, d0) ==
    IF p = 32 THEN {d0}
    ELSE IF p = 31 THEN {d0, d0 + 1}
    ELSE (d0 + 1)..(d0 + Pow2(32 - p) - 2)

C10_Successes(t) == Cardinality({i \in DOMAIN ip_list : ip_list[i] = t /\ outcome[i].alive})

\* C10: whatever the order in which the probes complete and are collected,
\* discover_hosts returns exactly the targets whose ping succeeded, in
\* ascending numeric IP order, and scan_host_ports exactly the ports whose
\* connect succeeded, in ascending port order (each with its service name).
C10_ResultIsSortedSuccesses ==
    /\ npc = "dh_returned" =>
          /\ \A t \in Range(ip_list) :
                Cardinality({k \in DOMAIN result : result[k].ip = t}) = C10_Successes(t)
          /\ \A k \in DOMAIN result :
                /\ result[k].ip \in Range(ip_list)
                /\ result[k].alive
                /\ \E i \in DOMAIN ip_list :
                      ip_list[i] = result[k].ip /\ result[k].latency_ms = outcome[i].latency
          /\ \A k, l \in DOMAIN result : k < l => IpLess(result[k].ip, result[l].ip)
    /\ npc = "sp_returned" =>
          /\ \A t \in Range(ip_list) :
                Cardinality({k \in DOMAIN result : result[k].port = t}) = C10_Successes(t)
          /\ \A k \in DOMAIN result :
                /\ result[k].port \in Range(ip_list)
                /\ result[k].service = get_service_name(result[k].port)
          /\ \A k, l \in DOMAIN result : k < l => result[k].port <= result[l].port

\* C10 witness: two probes succeeded and were collected in descending order,
\* and the returned list is ascending.
C10_Witness ==
    \/ /\ npc = "dh_returned"
       /\ Len(hosts) = 2 /\ IpLess(hosts[2].ip, hosts[1].ip)
       /\ Len(result) = 2 /\ IpLess(result[1].ip, result[2].ip)
    \/ /\ npc = "sp_returned"
       /\ Len(hosts) = 3 /\ hosts[1].port > hosts[2].port
       /\ Len(result) = 3 /\ result[1].port < result[2].port

\* ------------------------------------------------------------------------
\* scanners/wifi_scanner.py : run_wifi_scan
\* ------------------------------------------------------------------------
MaxRecs == 2         \* records one source invocation returns

\* The access points in range, as the sources report them: a record is
\* [bssid, ssid, signal_dbm].  The parsers of iw and iwlist always set a
\* 17-character upper-case bssid (wifi_scanner.py:180, 272); the Termux feed
\* may lack it (wifi_scanner.py:372 then stores '').
Bssids == {"AA:AA:AA:AA:AA:AA", "BB:BB:BB:BB:BB:BB"}
NameRecords ==
    [bssid : Bssids, ssid : {"<hidden>", "HomeNet"}, signal_dbm : {Some(-50)}]
\* ... or with different signals: none reported, below -100 dBm, 0 and usual
SignalRecords ==
    {[bssid |-> "AA:AA:AA:AA:AA:AA", ssid |-> "HomeNet", signal_dbm |-> None],
     [bssid |-> "BB:BB:BB:BB:BB:BB", ssid |-> "HomeNet", signal_dbm |-> Some(-110)],
     [bssid |-> "AA:AA:AA:AA:AA:AA", ssid |-> "HomeNet", signal_dbm |-> Some(0)],
     [bssid |-> "BB:BB:BB:BB:BB:BB", ssid |-> "HomeNet", signal_dbm |-> Some(-50)]}
Airs == {NameRecords, SignalRecords}

NoBssidRecord == [bssid |-> "", ssid |-> "HomeNet", signal_dbm |-> Some(-50)]

\* what scan_wifi_networks_iw / _iwlist can return (wifi_scanner.py:128-347):
\* any list of records, empty when the tool is missing, fails or finds nothing
IwOutputs     == SeqsUpTo(air, MaxRecs)
IwlistOutputs == SeqsUpTo(air, MaxRecs)
\* what scan_wifi_networks_termux can return (wifi_scanner.py:350-387)
TermuxOutputs == SeqsUpTo(air \cup {NoBssidRecord}, MaxRecs)

\* get_wireless_interfaces() (wifi_scanner.py:30-76)
InterfaceLists == {<<>>, <<"wlan0">>, <<"wlan0", "wlan1">>}

\* get_current_connection(interface) (wifi_scanner.py:79-125): a dict or None
Connections == {None, Some([ssid |-> "HomeNet"])}

\* f"current_connection_{interface}" (wifi_scanner.py:510)
ConnectionKey(interface) ==
    IF interface = "wlan0" THEN "current_connection_wlan0" ELSE "current_connection_wlan1"

\* mutant: the next source is tried whatever the previous one returned
AfterIw_always(nets) == "iwlist"

\* wifi_scanner.py:517-518, `if not networks: networks = scan_wifi_networks_iwlist(...)`
AfterIw(nets) == IF nets = <<>> THEN "iwlist" ELSE "dedup"

\* wifi_scanner.py:520-522, `if not networks: networks = scan_wifi_networks_termux()`
AfterIwlist(nets) == IF nets = <<>> THEN "termux" ELSE "dedup"

\* mutant: the set of seen addresses is never extended
RECURSIVE UniqueNetworks_forgets(_, _, _)
UniqueNetworks_forgets(nets, seen, acc) ==
    IF nets = <<>> THEN [nets |-> acc, seen |-> seen]
    ELSE LET net == Head(nets)
         IN  IF net.bssid # "" /\ net.bssid \notin seen
             THEN UniqueNetworks_forgets(Tail(nets), seen, Append(acc, net))
             ELSE UniqueNetworks_forgets(Tail(nets), seen, acc)

\* wifi_scanner.py:525-529: the networks whose bssid is non-empty and not seen
\* yet are appended, in order; Unique(nets, seen).nets is what is appended and
\* .seen the new set of seen bssids
RECURSIVE UniqueNetworks(_, _, _)
UniqueNetworks(nets, seen, acc) ==
    IF nets = <<>> THEN [nets |-> acc, seen |-> seen]
    ELSE LET net == Head(nets)
         IN  IF net.bssid # "" /\ net.bssid \notin seen
             THEN UniqueNetworks(Tail(nets), seen \cup {net.bssid}, Append(acc, net))
             ELSE UniqueNetworks(Tail(nets), seen, acc)

\* wifi_scanner.py:532, key=lambda x: x.get('signal_dbm') or -100
SignalKey(x) ==
    IF x.signal_dbm = None \/ x.signal_dbm = Some(0) THEN -100 ELSE TheVal(x.signal_dbm)

\* reverse=True: descending by key, equal keys in their original order
SignalBefore(x, y) == SignalKey(x) > SignalKey(y)

\* wifi_scanner.py:532
SortedBySignal(nets) == SortedBy(nets, SignalBefore)

InitWifi ==
    /\ BuilderInit("wifi") /\ IdleConv /\ IdleNet /\ IdleX
    /\ air \in Airs
    /\ wpc = "start" /\ interfaces = <<>> /\ widx = 0 /\ networks = <<>>
    /\ all_networks = <<>> /\ seen_bssids = {} /\ calls = <<>> /\ candidates = <<>>

\* wifi_scanner.py:478-485, 500-501: enumerate the interfaces, record them in
\* the metadata, warn when there is none
WifiGetInterfaces ==
    /\ wpc = "start"
    /\ \E ifs \in InterfaceLists :
          /\ interfaces' = ifs
          /\ metadata' = DictSet(metadata, "interfaces", ifs)
          /\ \/ /\ ifs = <<>>
                /\ warnings' = Append(warnings, "No wireless interfaces found")
                /\ wpc' = "termux_only"
                /\ widx' = 0
             \/ /\ ifs # <<>>
                /\ UNCHANGED warnings
                /\ wpc' = "iw"
                /\ widx' = 1
    /\ UNCHANGED <<air, networks, all_networks, seen_bssids, calls, candidates>>
    /\ UNCHANGED <<scan_type, items, errors, envelopes, cvars, nvars, xvars>>

\* wifi_scanner.py:490-493: no interface, the Termux feed is added as it comes
WifiTermuxOnly ==
    /\ wpc = "termux_only"
    /\ \E nets \in TermuxOutputs :
          /\ networks' = nets
          /\ items' = items \o nets
          /\ calls' = Append(calls, [iface |-> 0, source |-> "termux", n |-> Len(nets)])
    /\ wpc' = "build"
    /\ UNCHANGED <<air, interfaces, widx, all_networks, seen_bssids, candidates>>
    /\ UNCHANGED <<scan_type, metadata, errors, warnings, envelopes, cvars, nvars, xvars>>

\* wifi_scanner.py:508-515: the current connection goes to the metadata, then
\* scan_wifi_networks_iw(interface)
WifiScanIw ==
    /\ wpc = "iw"
    /\ \E current \in Connections :
          metadata' = IF current # None
                      THEN DictSet(metadata, ConnectionKey(interfaces[widx]),
                                   TheVal(current))
                      ELSE metadata
    /\ \E nets \in IwOutputs :
          /\ networks' = nets
          /\ calls' = Append(calls, [iface |-> widx, source |-> "iw", n |-> Len(nets)])
          /\ wpc' = AfterIw(nets)
    /\ UNCHANGED <<air, interfaces, widx, all_networks, seen_bssids, candidates>>
    /\ UNCHANGED <<scan_type, items, errors, warnings, envelopes, cvars, nvars, xvars>>

\* wifi_scanner.py:517-518
WifiScanIwlist ==
    /\ wpc = "iwlist"
    /\ \E nets \in IwlistOutputs :
          /\ networks' = nets
          /\ calls' = Append(calls, [iface |-> widx, source |-> "iwlist", n |-> Len(nets)])
          /\ wpc' = AfterIwlist(nets)
    /\ UNCHANGED <<air, interfaces, widx, all_networks, seen_bssids, candidates>>
    /\ UNCHANGED <<bvars, cvars, nvars, xvars>>

\* wifi_scanner.py:520-522
WifiScanTermux ==
    /\ wpc = "termux"
    /\ \E nets \in TermuxOutputs :
          /\ networks' = nets
          /\ calls' = Append(calls, [iface |-> widx, source |-> "termux", n |-> Len(nets)])
    /\ wpc' = "dedup"
    /\ UNCHANGED <<air, interfaces, widx, all_networks, seen_bssids, candidates>>
    /\ UNCHANGED <<bvars, cvars, nvars, xvars>>

\* wifi_scanner.py:524-529, then the next interface or the end of the loop
WifiAddUnique ==
    /\ wpc = "dedup"
    /\ LET u == UniqueNetworks(networks, seen_bssids, <<>>)
       IN  /\ all_networks' = all_networks \o u.nets
           /\ seen_bssids' = u.seen
    /\ candidates' = candidates \o networks
    /\ \/ /\ widx < Len(interfaces)
          /\ widx' = widx + 1
          /\ wpc' = "iw"
       \/ /\ widx >= Len(interfaces)
          /\ UNCHANGED widx
          /\ wpc' = "sort"
    /\ UNCHANGED <<air, interfaces, networks, calls>>
    /\ UNCHANGED <<bvars, cvars, nvars, xvars>>

\* wifi_scanner.py:531-535: sort by signal strength, add every network
WifiSortAndAdd ==
    /\ wpc = "sort"
    /\ all_networks' = SortedBySignal(all_networks)
    /\ items' = items \o SortedBySignal(all_networks)
    /\ wpc' = "build"
    /\ UNCHANGED <<air, interfaces, widx, networks, seen_bssids, calls, candidates>>
    /\ UNCHANGED <<scan_type, metadata, errors, warnings, envelopes, cvars, nvars, xvars>>

\* wifi_scanner.py:548-556: result = builder.build(); with an output directory
\* builder.save() builds a second envelope for the file; result is returned
WifiBuild ==
    /\ wpc = "build"
    /\ \/ envelopes' = <<BuildResult>>                   \* no output_dir
       \/ envelopes' = <<BuildResult, BuildResult>>      \* result, then save()
    /\ wpc' = "done"
    /\ UNCHANGED <<air, interfaces, widx, networks, all_networks, seen_bssids, calls,
                   candidates>>
    /\ UNCHANGED <<scan_type, items, metadata, errors, warnings, cvars, nvars, xvars>>

NextWifi ==
    \/ WifiGetInterfaces
    \/ WifiTermuxOnly
    \/ WifiScanIw
    \/ WifiScanIwlist
    \/ WifiScanTermux
    \/ WifiAddUnique
    \/ WifiSortAndAdd
    \/ WifiBuild

SpecWifi == InitWifi /\ [][NextWifi]_vars

\* the envelope run_wifi_scan returns
WifiResult == envelopes[1]

\* ------------------------------------------------------------------------
\* Claims on run_wifi_scan
\* ------------------------------------------------------------------------

\* a placeholder SSID / name
IsPlaceholder(name) == name \in {"<unknown>", "<hidden>", ""}

\* C3 (as claimed): on every path of the run (interfaces found or not), the
\* data of the returned envelope holds at most one record per bssid, whatever
\* records the sources return.
C3_OneRecordPerAddress ==
    wpc = "done" =>
        \A i, j \in DOMAIN EnvData(WifiResult) :
            i < j => EnvData(WifiResult)[i].bssid # EnvData(WifiResult)[j].bssid

\* C4 (as claimed): when the first candidate record of an address that reaches
\* the deduplicator has a placeholder SSID and a later candidate of the same
\* address a real one, the output holds exactly one record of that address and
\* it carries the real SSID.
C4_NameUpgrade ==
    wpc = "done" =>
        \A i, j \in DOMAIN candidates :
            ( /\ i < j
              /\ candidates[i].bssid # ""
              /\ candidates[j].bssid = candidates[i].bssid
              /\ \A h \in 1..(i - 1) : candidates[h].bssid # candidates[i].bssid
              /\ IsPlaceholder(candidates[i].ssid)
              /\ ~IsPlaceholder(candidates[j].ssid) )
            => /\ Cardinality({k \in DOMAIN EnvData(WifiResult) :
                      EnvData(WifiResult)[k].bssid = candidates[i].bssid}) = 1
               /\ \A k \in DOMAIN EnvData(WifiResult) :
                      EnvData(WifiResult)[k].bssid = candidates[i].bssid
                          => ~IsPlaceholder(EnvData(WifiResult)[k].ssid)

\* the invocations made for the interface of index k, in order
C5_CallsOf(k) == SelectSeq(calls, LAMBDA c : c.iface = k)

\* the interfaces whose loop body has run to its end
C5_Finished(k) == k < widx \/ wpc \in {"sort", "build", "done"}

\* C5: for each interface the sources are invoked in the order iw, iwlist,
\* Termux bridge, each at most once; a source is invoked only after every
\* earlier source returned zero records, and once the loop body of the
\* interface has ended, iwlist was invoked if and only if iw returned zero
\* records and the Termux bridge if and only if iw and iwlist both did.
C5_FallbackOrder ==
    \A k \in DOMAIN interfaces :
        LET cs == C5_CallsOf(k)
            chain == <<"iw", "iwlist", "termux">>
        IN  /\ Len(cs) <= 3
            /\ \A m \in DOMAIN cs : cs[m].source = chain[m]
            /\ \A m \in DOMAIN cs : m < Len(cs) => cs[m].n = 0
            /\ C5_Finished(k) =>
                  /\ Len(cs) >= 1
                  /\ (Len(cs) >= 2) <=> (cs[1].n = 0)
                  /\ (Len(cs) = 3) <=> (cs[1].n = 0 /\ cs[2].n = 0)

\* C5 witness: on the second interface iw and iwlist returned nothing and the
\* Termux bridge returned a record, while on the first iw returned records and
\* nothing else was invoked.
C5_Witness ==
    /\ wpc = "done"
    /\ Len(interfaces) = 2
    /\ Len(C5_CallsOf(1)) = 1 /\ C5_CallsOf(1)[1].n > 0
    /\ Len(C5_CallsOf(2)) = 3 /\ C5_CallsOf(2)[3].n > 0

\* C6 (as claimed, in its weakest reading: any warning at all counts as naming
\* a stage): in the returned envelope, when some invoked stage of the fallback
\* chain returned zero records there is a warning; when every invoked stage
\* returned zero records the envelope has zero data items and at least one
\* warning.
C6_ExhaustedStagesWarned ==
    wpc = "done" =>
        /\ (\E m \in DOMAIN calls : calls[m].n = 0) =>
              /\ WifiResult.warnings # Absent
              /\ EnvWarnings(WifiResult) # <<>>
        /\ (\A m \in DOMAIN calls : calls[m].n = 0) =>
              /\ EnvData(WifiResult) = <<>>
              /\ WifiResult.warnings # Absent
              /\ EnvWarnings(WifiResult) # <<>>

\* ------------------------------------------------------------------------
\* scanners/wifi_scanner.py : scan_wifi_networks_iw, the parse of the dump
\* ------------------------------------------------------------------------
MaxLines == 4        \* lines of a tool output

\* A line of tool output, after line.strip(), by the pattern it matches:
\* kind is the pattern, s the captured text, n the captured number and d a
\* second captured number.
Line(kind, s, n, d) == [kind |-> kind, s |-> s, n |-> n, d |-> d]

\* str.upper() on the addresses used below
Upper(s) ==
    IF s = "aa:aa:aa:aa:aa:aa" THEN "AA:AA:AA:AA:AA:AA" ELSE s

\* the addresses a tool prints
PrintedAddrs == {"aa:aa:aa:aa:aa:aa", "BB:BB:BB:BB:BB:BB"}

\* the lines of an `iw <if> scan dump` output (wifi_scanner.py:175-228):
\* `BSS <addr>`, `SSID: <text>`, `freq: <MHz>`, `signal: <dBm> dBm`, lines
\* with the markers 'WPA:', 'RSN:', 'Privacy', and lines matching nothing
IwLines ==
    {Line("BSS", a, 0, 0) : a \in PrintedAddrs}
    \cup {Line("SSID", t, 0, 0) : t \in {"", "HomeNet"}}
    \cup {Line("freq", "", f, 0) : f \in {2437}}
    \cup {Line("signal", "", v, 0) : v \in {-50}}
    \cup {Line(k, "", 0, 0) : k \in {"WPA:", "RSN:", "Privacy", "other"}}

\* wifi_scanner.py:179-188, 271-280
NewNetwork(addr) ==
    [bssid |-> Upper(addr), ssid |-> None, frequency |-> None, channel |-> None,
     signal_dbm |-> None, signal_quality |-> None, security |-> "Open",
     encryption |-> <<>>]

\* `x in list`
InList(x, l) == \E i \in DOMAIN l : l[i] = x

\* wifi_scanner.py:218-228 on the open record c, for a line holding marker k
IwSecurity(c, k) ==
    LET enc1 == IF k = "WPA:" /\ ~InList("WPA", c.encryption)
                THEN Append(c.encryption, "WPA") ELSE c.encryption
        enc2 == IF k = "RSN:" THEN Append(enc1, "WPA2") ELSE enc1
        c2   == IF k \in {"WPA:", "RSN:"}
                THEN [c EXCEPT !.encryption = enc2, !.security = "Secured"]
                ELSE c
    IN  IF k = "Privacy" /\ c2.encryption = <<>>
        THEN [c2 EXCEPT !.encryption = <<"WEP">>, !.security = "Secured"]
        ELSE c2

\* mutant: the open record is dropped when a new BSS line comes
IwOnLine_drops_open(cur, nets, line) ==
    IF line.kind = "BSS" THEN [cur |-> Some(NewNetwork(line.s)), nets |-> nets]
    ELSE [cur |-> cur, nets |-> nets]

\* wifi_scanner.py:171-228, the body of `for line in result.stdout.split('\n')`
\* on the open record cur (None or Some record) and the list nets
IwOnLine(cur, nets, line) ==
    IF line.kind = "BSS"
    THEN [cur  |-> Some(NewNetwork(line.s)),
          nets |-> IF cur # None THEN Append(nets, TheVal(cur)) ELSE nets]
    ELSE IF cur = None THEN [cur |-> cur, nets |-> nets]
    ELSE LET c == TheVal(cur)
         IN  [nets |-> nets,
              cur |-> Some(
                CASE line.kind = "SSID" ->
                       [c EXCEPT !.ssid = Some(IF line.s # "" THEN line.s ELSE "<hidden>")]
                  [] line.kind = "freq" ->
                       [c EXCEPT !.frequency = Some(line.n),
                                 !.channel = freq_to_channel(line.n)]
                  [] line.kind = "signal" ->
                       [c EXCEPT !.signal_dbm = Some(line.n),
                                 !.signal_quality = Some(dbm_to_quality(line.n))]
                  [] OTHER -> IwSecurity(c, line.kind))]

\* wifi_scanner.py:231-232, `if current_network: networks.append(...)`
Flushed(cur, nets) == IF cur # None THEN Append(nets, TheVal(cur)) ELSE nets

InitIw ==
    /\ IdleBuilder /\ IdleWifi /\ IdleConv /\ IdleNet /\ IdleDedup /\ IdleBt /\ IdleY
    /\ p_tool = "iw"
    /\ p_lines \in SeqsUpTo(IwLines, MaxLines)
    /\ p_idx = 1 /\ current_network = None /\ p_networks = <<>> /\ p_raised = None

\* one iteration of the for loop
IwParseLine ==
    /\ p_tool = "iw" /\ p_idx <= Len(p_lines)
    /\ LET r == IwOnLine(current_network, p_networks, p_lines[p_idx])
       IN  current_network' = r.cur /\ p_networks' = r.nets
    /\ p_idx' = p_idx + 1
    /\ UNCHANGED <<p_tool, p_lines, p_raised, bvars, wvars, cvars, nvars, dvars, tvars, yvars>>

\* the end of the input: the last network is added
IwParseEnd ==
    /\ p_tool = "iw" /\ p_idx = Len(p_lines) + 1
    /\ p_networks' = Flushed(current_network, p_networks)
    /\ current_network' = None
    /\ p_idx' = p_idx + 1
    /\ UNCHANGED <<p_tool, p_lines, p_raised, bvars, wvars, cvars, nvars, dvars, tvars, yvars>>

NextIw == IwParseLine \/ IwParseEnd

SpecIw == InitIw /\ [][NextIw]_vars

\* ------------------------------------------------------------------------
\* Claims on the parse of the iw dump
\* ------------------------------------------------------------------------

\* the parse has returned
ParseDone == p_idx = Len(p_lines) + 2

\* the indices of the boundary lines of the input, in input order
C11_Boundaries == SelectSeq([i \in DOMAIN p_lines |-> i], LAMBDA i : p_lines[i].kind = "BSS")

\* the lines of kind k in the block opened by the boundary at index b: those
\* after b and before the next boundary
C11_Block(b, k) ==
    {i \in DOMAIN p_lines :
        /\ i > b /\ p_lines[i].kind = k
        /\ \A j \in (b + 1)..i : p_lines[j].kind # "BSS"}

\* the last element of a non-empty set of indices
C11_Last(S) == CHOOSE i \in S : \A j \in S : j <= i

\* the optional integer as freq_to_channel takes it (None is falsy)
C11_ChannelOf(frequency) ==
    IF frequency = None THEN None ELSE freq_to_channel(TheVal(frequency))

\* C11: the parse of an iw dump returns exactly one record per `BSS <addr>`
\* line, in input order (lines before the first are ignored, the last open
\* record is flushed at the end); the SSID, frequency and signal of a record
\* are those of the SSID / freq / signal lines of its own block, and its
\* channel is freq_to_channel of its frequency.
C11_OneRecordPerBoundary ==
    ParseDone /\ p_tool = "iw" =>
        /\ Len(p_networks) = Len(C11_Boundaries)
        /\ \A k \in DOMAIN p_networks :
              LET b == C11_Boundaries[k]
                  r == p_networks[k]
                  ss == C11_Block(b, "SSID")
                  fs == C11_Block(b, "freq")
                  gs == C11_Block(b, "signal")
              IN  /\ r.bssid = Upper(p_lines[b].s)
                  /\ r.ssid = IF ss = {} THEN None
                              ELSE IF p_lines[C11_Last(ss)].s = "" THEN Some("<hidden>")
                              ELSE Some(p_lines[C11_Last(ss)].s)
                  /\ r.frequency = IF fs = {} THEN None ELSE Some(p_lines[C11_Last(fs)].n)
                  /\ r.signal_dbm = IF gs = {} THEN None ELSE Some(p_lines[C11_Last(gs)].n)
                  /\ r.channel = C11_ChannelOf(r.frequency)

\* C11 witness: a dump with a line before the first boundary, a frequency
\* line in the first block and a second, empty block, parsed into two records.
C11_Witness ==
    /\ ParseDone /\ p_tool = "iw"
    /\ Len(p_lines) = 4
    /\ p_lines[1].kind = "SSID" /\ p_lines[2].kind = "BSS"
    /\ p_lines[3].kind = "freq" /\ p_lines[4].kind = "BSS"
    /\ Len(p_networks) = 2
    /\ p_networks[1].channel = Some(6)
    /\ p_networks[2].frequency = None

\* ------------------------------------------------------------------------
\* The deduplicators: run_wifi_scan (wifi_scanner.py:524-529),
\* run_bluetooth_scan (bluetooth_scanner.py:456-488) and the in-scan merge of
\* scan_ble_devices (bluetooth_scanner.py:252-279)
\* ------------------------------------------------------------------------
MaxCands == 3        \* candidate records / advertisement lines fed to a deduplicator

\* candidate wifi records: the same address may come with different SSIDs and
\* signals, and the Termux feed may give an empty bssid
WifiCands ==
    [bssid : Bssids \cup {""}, ssid : {"<hidden>", "HomeNet"},
     signal_dbm : {Some(-50), Some(-70)}]

\* candidate Bluetooth records, as scan_classic_bluetooth (bluetooth_scanner.py:
\* 197-204), scan_ble_devices (264-271) and scan_bluetooth_termux (314-321)
\* build them
BtCands ==
    [address : {"", "AA:AA:AA:AA:AA:AA", "BB:BB:BB:BB:BB:BB"},
     name : {"<unknown>", "Pixel-7"},
     type : {"Classic", "BLE"},
     rssi : {None}, device_class : {None},
     device_type : {"None", "BLE Device"}]

\* the lines `hcitool lescan --duplicates` prints: `<addr> <name>`, the name
\* being empty, '(unknown)' or a real one, and lines matching nothing
BleLines ==
    {Line("adv", a, 0, 0) : a \in PrintedAddrs}
    \cup {[kind |-> "adv", s |-> a, n |-> 0, d |-> 0, name |-> nm] :
             a \in PrintedAddrs, nm \in {"(unknown)", "Pixel-7", "Buds"}}
    \cup {Line("other", "", 0, 0)}

\* match.group(2).strip() of an advertisement line (bluetooth_scanner.py:256)
AdvName(line) == IF "name" \in DOMAIN line THEN line.name ELSE ""

\* bluetooth_scanner.py:253, re.match(r'([0-9A-Fa-f:]{17})\s+(.*)', line.strip()):
\* strip() takes the blank after an address that no name follows, and \s+
\* then finds nothing to match, so a line of an address alone matches no more
\* than a line of another kind
AdvMatches(line) == line.kind = "adv" /\ AdvName(line) # ""

\* mutant: a later record of a seen address replaces the accepted one
RECURSIVE UniqueDevices_last_wins(_, _, _)
UniqueDevices_last_wins(devs, seen, acc) ==
    IF devs = <<>> THEN [devs |-> acc, seen |-> seen]
    ELSE LET dev == Head(devs)
         IN  IF dev.address = "" THEN UniqueDevices_last_wins(Tail(devs), seen, acc)
             ELSE IF dev.address \notin seen
             THEN UniqueDevices_last_wins(Tail(devs), seen \cup {dev.address},
                                          Append(acc, dev))
             ELSE UniqueDevices_last_wins(Tail(devs), seen,
                      [i \in DOMAIN acc |->
                          IF acc[i].address = dev.address THEN dev ELSE acc[i]])

\* bluetooth_scanner.py:456-460, 472-476, 484-488: `if addr and addr not in
\* seen_addresses`, the loop applied to classic, BLE and Termux devices alike
RECURSIVE UniqueDevices(_, _, _)
UniqueDevices(devs, seen, acc) ==
    IF devs = <<>> THEN [devs |-> acc, seen |-> seen]
    ELSE LET dev == Head(devs)
         IN  IF dev.address # "" /\ dev.address \notin seen
             THEN UniqueDevices(Tail(devs), seen \cup {dev.address}, Append(acc, dev))
             ELSE UniqueDevices(Tail(devs), seen, acc)

\* bluetooth_scanner.py:264-271
BleDevice(addr, name) ==
    [address |-> addr,
     name |-> IF name # "" /\ name # "(unknown)" THEN name ELSE "<unknown>",
     type |-> "BLE", rssi |-> None, device_class |-> None,
     device_type |-> "BLE Device"]

\* mutant: a later real name of a listed address replaces the name it has
BleOnLine_last_name_wins(st, line) ==
    IF ~AdvMatches(line) THEN st
    ELSE LET addr == Upper(line.s)
             name == AdvName(line)
             device == BleDevice(addr, name)
             found == {i \in DOMAIN st.devices : st.devices[i].address = addr}
         IN  IF addr \in st.seen /\ name \in {"(unknown)", ""} THEN st
             ELSE [seen |-> st.seen \cup {addr},
                   devices |->
                     IF found # {}
                     THEN LET e == CHOOSE i \in found : \A j \in found : i <= j
                          IN  [st.devices EXCEPT ![e].name = device.name]
                     ELSE Append(st.devices, device)]

\* bluetooth_scanner.py:252-279, the body of the read loop for one line, on
\* st = [devices, seen]
BleOnLine(st, line) ==
    IF ~AdvMatches(line) THEN st
    ELSE LET addr == Upper(line.s)
             name == AdvName(line)
             device == BleDevice(addr, name)
             found == {i \in DOMAIN st.devices : st.devices[i].address = addr}
         IN  IF addr \in st.seen /\ name \in {"(unknown)", ""} THEN st
             ELSE [seen |-> st.seen \cup {addr},
                   devices |->
                     IF found # {}
                     THEN LET e == CHOOSE i \in found : \A j \in found : i <= j
                          IN  IF device.name # "<unknown>"
                                 /\ st.devices[e].name = "<unknown>"
                              THEN [st.devices EXCEPT ![e].name = device.name]
                              ELSE st.devices
                     ELSE Append(st.devices, device)]

\* the read loop over a sequence of lines
RECURSIVE BleOnLines(_, _)
BleOnLines(st, lines) ==
    IF lines = <<>> THEN st ELSE BleOnLines(BleOnLine(st, Head(lines)), Tail(lines))

\* bluetooth_scanner.py:231-232
BleStart == [devices |-> <<>>, seen |-> {}]

InitDedup ==
    /\ IdleBuilder /\ IdleWifi /\ IdleConv /\ IdleNet /\ IdleParse /\ IdleBt /\ IdleY
    /\ dd_once = <<>> /\ dd_twice = <<>>
    /\ \/ dd_pc = "wifi" /\ dd_in \in SeqsUpTo(WifiCands, MaxCands)
       \/ dd_pc = "bluetooth" /\ dd_in \in SeqsUpTo(BtCands, MaxCands)
       \/ dd_pc = "ble" /\ dd_in \in SeqsUpTo(BleLines, MaxCands)

\* the dedup loop of run_wifi_scan on the list, and on the list twice
DedupWifi ==
    /\ dd_pc = "wifi"
    /\ dd_once' = UniqueNetworks(dd_in, {}, <<>>).nets
    /\ dd_twice' = UniqueNetworks(dd_in \o dd_in, {}, <<>>).nets
    /\ dd_pc' = "wifi_done"
    /\ UNCHANGED <<dd_in, bvars, wvars, cvars, nvars, pvars, tvars, yvars>>

\* the dedup loop of run_bluetooth_scan on the list, and on the list twice
DedupBluetooth ==
    /\ dd_pc = "bluetooth"
    /\ dd_once' = UniqueDevices(dd_in, {}, <<>>).devs
    /\ dd_twice' = UniqueDevices(dd_in \o dd_in, {}, <<>>).devs
    /\ dd_pc' = "bluetooth_done"
    /\ UNCHANGED <<dd_in, bvars, wvars, cvars, nvars, pvars, tvars, yvars>>

\* the read loop of scan_ble_devices on the lines, and on the lines twice
DedupBle ==
    /\ dd_pc = "ble"
    /\ dd_once' = BleOnLines(BleStart, dd_in).devices
    /\ dd_twice' = BleOnLines(BleStart, dd_in \o dd_in).devices
    /\ dd_pc' = "ble_done"
    /\ UNCHANGED <<dd_in, bvars, wvars, cvars, nvars, pvars, tvars, yvars>>

NextDedup == DedupWifi \/ DedupBluetooth \/ DedupBle

SpecDedup == InitDedup /\ [][NextDedup]_vars

\* ------------------------------------------------------------------------
\* Claims on the deduplicators
\* ------------------------------------------------------------------------

DedupDone == dd_pc \in {"wifi_done", "bluetooth_done", "ble_done"}

\* C12: each of the three deduplicators gives, on a candidate list
\* concatenated with itself, the same records in the same order with the same
\* field values as on the list once.
C12_DedupIdempotent ==
    DedupDone => dd_twice = dd_once

\* C12 witness: three lines of one address, the first without a name and the
\* later two with different real names, merged into one record.
C12_Witness ==
    /\ dd_pc = "ble_done"
    /\ Len(dd_in) = 3
    /\ \A i \in 1..3 : dd_in[i].kind = "adv" /\ dd_in[i].s = "aa:aa:aa:aa:aa:aa"
    /\ AdvName(dd_in[1]) = "" /\ AdvName(dd_in[2]) = "Buds" /\ AdvName(dd_in[3]) = "Pixel-7"
    /\ Len(dd_once) = 1 /\ dd_once[1].name = "Buds"

\* the fields of a record other than its name / SSID
C14_OtherFields(kind, r) ==
    IF kind = "wifi_done" THEN <<r.bssid, r.signal_dbm>>
    ELSE <<r.address, r.type, r.rssi, r.device_class, r.device_type>>

\* the record the candidate of index i establishes when it is the first of its
\* address
C14_Candidate(i) ==
    IF dd_pc = "ble_done" THEN BleDevice(Upper(dd_in[i].s), AdvName(dd_in[i]))
    ELSE dd_in[i]

\* the address of the candidate of index i ("" when it has none)
C14_Address(i) ==
    IF dd_pc = "wifi_done" THEN dd_in[i].bssid
    ELSE IF dd_pc = "ble_done"
         THEN (IF dd_in[i].kind = "adv" THEN Upper(dd_in[i].s) ELSE "")
    ELSE dd_in[i].address

\* the address of an output record
C14_OutAddress(r) == IF dd_pc = "wifi_done" THEN r.bssid ELSE r.address

\* C14: in the output of each of the three deduplicators, every field of a
\* record other than its name / SSID is that of the first candidate of its
\* address: later candidates of the same address change none of them.
C14_FirstSourceWins ==
    DedupDone =>
        \A k \in DOMAIN dd_once :
            \E i \in DOMAIN dd_in :
                /\ C14_Address(i) = C14_OutAddress(dd_once[k])
                /\ \A h \in 1..(i - 1) : C14_Address(h) # C14_Address(i)
                /\ C14_OtherFields(dd_pc, dd_once[k])
                      = C14_OtherFields(dd_pc, C14_Candidate(i))

\* C14 witness: a classic record of an address followed by a BLE record of the
\* same address with another name and device type; the classic one is kept.
C14_Witness ==
    /\ dd_pc = "bluetooth_done"
    /\ Len(dd_in) = 2
    /\ dd_in[1].address = "AA:AA:AA:AA:AA:AA" /\ dd_in[2].address = "AA:AA:AA:AA:AA:AA"
    /\ dd_in[1].type = "Classic" /\ dd_in[2].type = "BLE"
    /\ dd_in[1].device_type = "None" /\ dd_in[2].device_type = "BLE Device"
    /\ dd_in[1].name = "<unknown>" /\ dd_in[2].name = "Pixel-7"
    /\ dd_once = <<dd_in[1]>>

\* C15 (as claimed): in the returned envelope the networks are in descending
\* order of signal_dbm and every network without a signal value comes after
\* every network that has one, whatever the values and whichever path of the
\* run produced the records.
C15_SortedBySignalDescending ==
    wpc = "done" =>
        \A i, j \in DOMAIN EnvData(WifiResult) :
            i < j =>
                LET x == EnvData(WifiResult)[i]
                    y == EnvData(WifiResult)[j]
                IN  /\ y.signal_dbm # None => x.signal_dbm # None
                    /\ (x.signal_dbm # None /\ y.signal_dbm # None)
                          => TheVal(x.signal_dbm) >= TheVal(y.signal_dbm)

\* 100 - (-30 - dbm) * 100 / 60 truncated to an integer, for -90 < dbm < -30
\* (the value is positive there, truncation is the floor)
C16_Linear(dbm) == (6000 - (-30 - dbm) * 100) \div 60

\* C16 (as claimed): dbm_to_quality(dbm) is 100 for every dbm >= -30, 0 and
\* positive values included, 0 for every dbm <= -90, and the truncated linear
\* interpolation in between.
C16_DbmToQualityClamps ==
    cv_pc = "dbm_done" =>
        cv_ra = Some(IF cv_a >= -30 THEN 100
                     ELSE IF cv_a <= -90 THEN 0
                     ELSE C16_Linear(cv_a))

\* the valid channels
C17_Channels == (1..14) \cup (36..165)

\* C17: channel_to_freq(c) is 2407 + 5c for c in 1..13, 2484 for 14,
\* 5000 + 5c for c in 36..165 and null for any other channel, and
\* freq_to_channel(channel_to_freq(c)) = c for every valid channel c.
C17_ChannelToFreqInverse ==
    /\ cv_pc \in {"chan_fr", "chan_rt"} =>
          cv_ra = IF cv_a \in 1..13 THEN Some(2407 + 5 * cv_a)
                  ELSE IF cv_a = 14 THEN Some(2484)
                  ELSE IF cv_a \in 36..165 THEN Some(5000 + 5 * cv_a)
                  ELSE None
    /\ (cv_pc = "chan_rt" /\ cv_a \in C17_Channels) => cv_rb = Some(cv_a)

\* C17 witness: channel 14 converted to 2484 MHz and back.
C17_Witness ==
    cv_pc = "chan_rt" /\ cv_a = 14 /\ cv_ra = Some(2484) /\ cv_rb = Some(14)

\* ------------------------------------------------------------------------
\* scanners/bluetooth_scanner.py : classify_device
\* ------------------------------------------------------------------------
MaxClass == 8191     \* the largest class code tried (0x1FFF: every major / minor field)

\* bluetooth_scanner.py:31-76, <<code, name>> in the order of the dictionary
BT_DEVICE_CLASSES ==
    << <<256, "Computer">>, <<512, "Phone">>, <<768, "LAN/Network">>,
       <<1024, "Audio/Video">>, <<1280, "Peripheral">>, <<1536, "Imaging">>,
       <<1792, "Wearable">>, <<2048, "Toy">>, <<2304, "Health">>,
       <<516, "Cellular">>, <<520, "Cordless">>, <<524, "Smartphone">>,
       <<528, "Modem/Gateway">>,
       <<1028, "Headset">>, <<1032, "Hands-free">>, <<1044, "Microphone">>,
       <<1048, "Loudspeaker">>, <<1052, "Headphones">>, <<1056, "Portable Audio">>,
       <<1060, "Car Audio">>, <<1064, "Set-top Box">>, <<1068, "HiFi Audio">>,
       <<1072, "VCR">>, <<1076, "Video Camera">>, <<1080, "Camcorder">>,
       <<1084, "Video Monitor">>, <<1088, "Video Display and Loudspeaker">>,
       <<1344, "Keyboard">>, <<1408, "Pointing Device">>,
       <<1472, "Combo Keyboard/Pointing">>,
       <<1796, "Wristwatch">>, <<1800, "Pager">>, <<1804, "Jacket">>,
       <<1808, "Helmet">>, <<1812, "Glasses">> >>

\* device_class & 0x0FFC (bits 2..11)
And0FFC(code) == (code % 4096) - (code % 4)
\* device_class & 0x1F00 (bits 8..12)
And1F00(code) == (code % 8192) - (code % 256)

\* the indices of the entries of the table with the given code
ClassEntries(code) == {i \in DOMAIN BT_DEVICE_CLASSES : BT_DEVICE_CLASSES[i][1] = code}

\* BT_DEVICE_CLASSES.get(code, "Unknown")
ClassGet(code) ==
    IF ClassEntries(code) = {} THEN "Unknown"
    ELSE BT_DEVICE_CLASSES[CHOOSE i \in ClassEntries(code) : TRUE][2]

\* bluetooth_scanner.py:361-381.  `not device_class` is true of 0; the first
\* entry, in dictionary order, whose code equals device_class & 0x0FFC wins.
classify_device(device_class) ==
    IF device_class = 0 THEN "Unknown"
    ELSE LET hits == ClassEntries(And0FFC(device_class))
         IN  IF hits # {}
             THEN BT_DEVICE_CLASSES[CHOOSE i \in hits : \A j \in hits : i <= j][2]
             ELSE ClassGet(And1F00(device_class))

\* class codes with service-class bits set (a phone, a headset)
ClassInputs == (0..MaxClass) \cup {5898764, 2360324}

InitClassify ==
    /\ IdleBuilder /\ IdleWifi /\ IdleNet /\ IdleX
    /\ cv_pc = "class" /\ cv_a \in ClassInputs /\ cv_b = 0
    /\ cv_ra = None /\ cv_rb = None

\* classify_device(a)
ClassifyDevice ==
    /\ cv_pc = "class"
    /\ cv_ra' = Some(classify_device(cv_a))
    /\ cv_pc' = "class_done"
    /\ UNCHANGED <<cv_a, cv_b, cv_rb, bvars, wvars, nvars, xvars>>

NextClassify == ClassifyDevice

SpecClassify == InitClassify /\ [][NextClassify]_vars

\* ------------------------------------------------------------------------
\* Claims on classify_device
\* ------------------------------------------------------------------------

\* C18 (as claimed): classify_device(code) is the table entry matching the
\* minor-class mask of the code when there is one, otherwise the entry of the
\* code's major class (code & 0x1F00) when there is one, otherwise 'Unknown';
\* code 0 gives 'Unknown', and a named result is always the name of an entry
\* of the code's own major class, never that of a different major class.
C18_ClassifyDevice ==
    cv_pc = "class_done" =>
        LET name == TheVal(cv_ra)
        IN  /\ name = IF cv_a = 0 THEN "Unknown"
                      ELSE IF ClassEntries(And0FFC(cv_a)) # {}
                           THEN ClassGet(And0FFC(cv_a))
                      ELSE ClassGet(And1F00(cv_a))
            /\ name # "Unknown" =>
                  \E i \in DOMAIN BT_DEVICE_CLASSES :
                      /\ BT_DEVICE_CLASSES[i][2] = name
                      /\ And1F00(BT_DEVICE_CLASSES[i][1]) = And1F00(cv_a)

\* ------------------------------------------------------------------------
\* scanners/wifi_scanner.py : scan_wifi_networks_iwlist and
\* scan_wifi_networks_termux; scanners/bluetooth_scanner.py :
\* scan_bluetooth_termux -- the parse of the tool output
\* ------------------------------------------------------------------------

\* the lines of an `iwlist <if> scan` output (wifi_scanner.py:267-338):
\* `Cell NN - Address: <addr>`, `ESSID:"<text>"`, `Channel:<n>`,
\* `Frequency:<x> GHz` (n is int(float(x) * 1000)), `Signal level=<n> dBm`,
\* `Quality=<n>/<d>`, `Encryption key:on`, information-element lines and
\* lines matching nothing
IwlistLines ==
    {Line("Cell", a, 0, 0) : a \in PrintedAddrs}
    \cup {Line("ESSID", "HomeNet", 0, 0), Line("Channel", "", 6, 0),
          Line("Frequency", "", 2437, 0), Line("Signal level", "", -50, 0),
          Line("Quality", "", 35, 70), Line("Quality", "", 5, 0),
          Line("Encryption key:on", "", 0, 0), Line("WPA2", "", 0, 0),
          Line("WEP", "", 0, 0), Line("other", "", 0, 0)}

\* `not x` of an optional integer: None and 0 are falsy
Falsy(o) == o = None \/ o = Some(0)

\* wifi_scanner.py:321, int(int(n) / int(d) * 100) for d # 0 (on the
\* quotients used here the binary64 value is exact)
QualityPercent(n, d) == (n * 100) \div d

\* wifi_scanner.py:263-338, the body of the for loop on the open record cur
\* and the list nets; raised is the exception that leaves the loop, if any
IwlistOnLine(cur, nets, line) ==
    IF line.kind = "Cell"
    THEN [cur  |-> Some(NewNetwork(line.s)),
          nets |-> IF cur # None THEN Append(nets, TheVal(cur)) ELSE nets,
          raised |-> None]
    ELSE IF cur = None THEN [cur |-> cur, nets |-> nets, raised |-> None]
    ELSE LET c == TheVal(cur)
         IN  IF line.kind = "Quality" /\ Falsy(c.signal_quality) /\ line.d = 0
             THEN [cur |-> cur, nets |-> nets, raised |-> Some("ZeroDivisionError")]
             ELSE [nets |-> nets, raised |-> None,
                   cur |-> Some(
                     CASE line.kind = "ESSID" ->
                            [c EXCEPT !.ssid = Some(IF line.s # "" THEN line.s
                                                    ELSE "<hidden>")]
                       [] line.kind = "Channel" ->
                            [c EXCEPT !.channel = Some(line.n),
                                      !.frequency = channel_to_freq(line.n)]
                       [] line.kind = "Frequency" ->
                            [c EXCEPT !.frequency = Some(line.n),
                                      !.channel = IF Falsy(c.channel)
                                                  THEN freq_to_channel(line.n)
                                                  ELSE c.channel]
                       [] line.kind = "Signal level" ->
                            [c EXCEPT !.signal_dbm = Some(line.n),
                                      !.signal_quality = Some(dbm_to_quality(line.n))]
                       [] line.kind = "Quality" /\ Falsy(c.signal_quality) ->
                            [c EXCEPT !.signal_quality =
                                          Some(QualityPercent(line.n, line.d))]
                       [] line.kind = "Encryption key:on" ->
                            [c EXCEPT !.security = "Secured"]
                       [] line.kind = "WPA2" ->
                            [c EXCEPT !.encryption = Append(c.encryption, "WPA2")]
                       [] line.kind = "WEP" ->
                            [c EXCEPT !.encryption = Append(c.encryption, "WEP")]
                       [] OTHER -> c)]

\* the elements of the JSON array printed by termux-wifi-scaninfo /
\* termux-bluetooth-scaninfo: an object whose bssid / address is a string, is
\* null or is missing, or an element that is not an object; n is the rssi
TermuxElements ==
    {Line("object", a, v, 0) : a \in PrintedAddrs, v \in {-50}}
    \cup {Line("object_no_id", "", -50, 0), Line("object_null_id", "", -50, 0),
          Line("scalar", "", 0, 0)}

\* wifi_scanner.py:371-380 for an object with ssid 'HomeNet', frequency_mhz
\* 2437 and no capabilities; net.get('bssid', '') is '' when the key is missing
TermuxNetwork(el) ==
    [bssid |-> IF el.kind = "object" THEN Upper(el.s) ELSE "",
     ssid |-> Some("HomeNet"), frequency |-> Some(2437),
     channel |-> freq_to_channel(2437),
     signal_dbm |-> Some(el.n), signal_quality |-> Some(dbm_to_quality(el.n)),
     security |-> "Open", encryption |-> <<>>]

\* bluetooth_scanner.py:314-321 for an object with no name, type and class
TermuxDevice(el) ==
    [address |-> IF el.kind = "object" THEN Upper(el.s) ELSE "",
     name |-> "<unknown>", type |-> "Unknown", rssi |-> Some(el.n),
     device_class |-> None, device_type |-> "Unknown"]

\* wifi_scanner.py:370-380, bluetooth_scanner.py:313-321: one iteration of
\* `for net in data`.  net.get(...) on an element that is not an object and
\* .upper() on a null bssid / address raise AttributeError, which neither
\* `except json.JSONDecodeError` nor the outer except clause catches.
TermuxOnElement(tool, nets, el) ==
    IF el.kind \in {"scalar", "object_null_id"}
    THEN [nets |-> nets, raised |-> Some("AttributeError")]
    ELSE [nets |-> Append(nets, IF tool = "termux_wifi" THEN TermuxNetwork(el)
                                ELSE TermuxDevice(el)),
          raised |-> None]

InitFeeds ==
    /\ IdleBuilder /\ IdleWifi /\ IdleConv /\ IdleNet /\ IdleDedup /\ IdleBt /\ IdleY
    /\ p_idx = 1 /\ current_network = None /\ p_networks = <<>> /\ p_raised = None
    /\ \/ p_tool = "iwlist" /\ p_lines \in SeqsUpTo(IwlistLines, MaxLines)
       \/ p_tool \in {"termux_wifi", "termux_bt"}
          /\ p_lines \in SeqsUpTo(TermuxElements, MaxLines)

\* one iteration of the for loop of scan_wifi_networks_iwlist; an exception
\* leaves the function, and run_wifi_scan, without a return value
IwlistParseLine ==
    /\ p_tool = "iwlist" /\ p_idx <= Len(p_lines)
    /\ LET r == IwlistOnLine(current_network, p_networks, p_lines[p_idx])
       IN  /\ current_network' = r.cur /\ p_networks' = r.nets
           /\ p_raised' = r.raised
           /\ p_idx' = IF r.raised = None THEN p_idx + 1 ELSE Len(p_lines) + 2
    /\ UNCHANGED <<p_tool, p_lines, bvars, wvars, cvars, nvars, dvars, tvars, yvars>>

\* wifi_scanner.py:340-347
IwlistParseEnd ==
    /\ p_tool = "iwlist" /\ p_idx = Len(p_lines) + 1
    /\ p_networks' = Flushed(current_network, p_networks)
    /\ current_network' = None
    /\ p_idx' = p_idx + 1
    /\ UNCHANGED <<p_tool, p_lines, p_raised, bvars, wvars, cvars, nvars, dvars, tvars, yvars>>

\* one iteration of `for net in data` / `for dev in data`
TermuxParseElement ==
    /\ p_tool \in {"termux_wifi", "termux_bt"} /\ p_idx <= Len(p_lines)
    /\ LET r == TermuxOnElement(p_tool, p_networks, p_lines[p_idx])
       IN  /\ p_networks' = r.nets
           /\ p_raised' = r.raised
           /\ p_idx' = IF r.raised = None THEN p_idx + 1 ELSE Len(p_lines) + 2
    /\ UNCHANGED <<p_tool, p_lines, current_network, bvars, wvars, cvars, nvars, dvars, tvars, yvars>>

\* wifi_scanner.py:387, bluetooth_scanner.py:328
TermuxParseEnd ==
    /\ p_tool \in {"termux_wifi", "termux_bt"} /\ p_idx = Len(p_lines) + 1
    /\ p_idx' = p_idx + 1
    /\ UNCHANGED <<p_tool, p_lines, current_network, p_networks, p_raised,
                   bvars, wvars, cvars, nvars, dvars, tvars, yvars>>

NextFeeds == IwlistParseLine \/ IwlistParseEnd \/ TermuxParseElement \/ TermuxParseEnd

SpecFeeds == InitFeeds /\ [][NextFeeds]_vars

\* ------------------------------------------------------------------------
\* Claims on the parse of the iwlist output and of the Termux feeds
\* ------------------------------------------------------------------------

\* the records of the input that are well formed: the Cell lines of an iwlist
\* output, the objects of a Termux feed whose identifier is not null
C19_WellFormed ==
    {i \in DOMAIN p_lines : p_lines[i].kind \in {"Cell", "object", "object_no_id"}}

\* C19 (as claimed): whatever the tool output, the parse ends without an
\* exception; a malformed record (a Quality line with denominator 0, a Termux
\* element that is not an object or whose identifier is null) is skipped and
\* the other records are still returned.
C19_ParseFailureIsLocal ==
    (ParseDone /\ p_tool \in {"iwlist", "termux_wifi", "termux_bt"}) =>
        /\ p_raised = None
        /\ Len(p_networks) = Cardinality(C19_WellFormed)

\* ------------------------------------------------------------------------
\* scanners/bluetooth_scanner.py : run_bluetooth_scan and scan_ble_devices
\* ------------------------------------------------------------------------
MaxBtRecs == 1       \* devices one classic inquiry / one Termux feed returns
MaxAdv == 1          \* lines the lescan child prints during one LE scan

\* how an invocation through subprocess.run can end
ToolOutcomes == {"missing", "timeout", "nonzero", "success"}

\* What a scan function returns when the invocation ended in `how`: the parsed output after exit
\* status 0; [] when FileNotFoundError or TimeoutExpired was caught (one
\* except clause for both) and when the exit status is not 0.
ToolResult(how, outputs) == IF how = "success" THEN outputs ELSE {<<>>}

\* bluetooth_scanner.py:197-210: a device found by the classic inquiry, with
\* the class code get_device_class returned for it (None when `hcitool info`
\* failed or printed no class)
ClassicDevice(addr, name, class) ==
    [address |-> addr, name |-> name, type |-> "Classic", rssi |-> None,
     device_class |-> class,
     device_type |-> IF class = None \/ class = Some(0) THEN "None"
                     ELSE classify_device(TheVal(class))]

\* the devices in range, as each source reports them
ClassicFound ==
    {ClassicDevice("AA:AA:AA:AA:AA:AA", "<unknown>", None),
     ClassicDevice("BB:BB:BB:BB:BB:BB", "Pixel-7", Some(5898764))}
BleRunLines ==
    {[kind |-> "adv", s |-> "aa:aa:aa:aa:aa:aa", n |-> 0, d |-> 0, name |-> "Pixel-7"],
     Line("adv", "BB:BB:BB:BB:BB:BB", 0, 0)}
TermuxFound ==
    {TermuxDevice(Line("object", "aa:aa:aa:aa:aa:aa", -50, 0)),
     TermuxDevice(Line("object_no_id", "", -50, 0))}

\* scan_classic_bluetooth (bluetooth_scanner.py:167-217) after exit status 0
ClassicOutputs == SeqsUpTo(ClassicFound, MaxBtRecs)
\* scan_bluetooth_termux (bluetooth_scanner.py:293-328) after exit status 0,
\* on a feed of well-formed elements
TermuxBtOutputs == SeqsUpTo(TermuxFound, MaxBtRecs)

\* get_bluetooth_adapters() (bluetooth_scanner.py:79-143): the adapter names
AdapterLists == {<<>>, <<"hci0">>, <<"hci0", "hci1">>}

InitBt ==
    /\ BuilderInit("bluetooth") /\ IdleWifi /\ IdleConv /\ IdleNet
    /\ IdleParse /\ IdleDedup /\ IdleY
    /\ tpc = "start" /\ adapters = <<>> /\ scan_ble \in BOOLEAN /\ tidx = 0
    /\ t_devices = <<>> /\ all_devices = <<>> /\ seen_addresses = {} /\ tcalls = <<>>
    /\ le = BleStart /\ le_read = 0 /\ proc = "none"

\* the frame of a step of the Bluetooth run that leaves the builder alone
BtOnly == UNCHANGED <<bvars, wvars, cvars, nvars, pvars, dvars, yvars>>
\* the frame of the steps that record what is done to the lescan child
BleOnly ==
    UNCHANGED <<bvars, wvars, cvars, nvars, pvars, dvars, rvars, mvars, ivars, evars,
                h_ops, avars>>

\* bluetooth_scanner.py:412-419, 437-438
BtGetAdapters ==
    /\ tpc = "start"
    /\ \E ads \in AdapterLists :
          /\ adapters' = ads
          /\ metadata' = DictSet(metadata, "adapters", ads)
          /\ \/ /\ ads = <<>>
                /\ warnings' = Append(warnings, "No Bluetooth adapters found")
                /\ tpc' = "termux_only" /\ tidx' = 0
             \/ /\ ads # <<>>
                /\ UNCHANGED warnings
                /\ tpc' = "classic" /\ tidx' = 1
    /\ UNCHANGED <<scan_ble, t_devices, all_devices, seen_addresses, tcalls, le,
                   le_read, proc>>
    /\ UNCHANGED <<scan_type, items, errors, envelopes, wvars, cvars, nvars, pvars,
                   dvars, yvars>>

\* bluetooth_scanner.py:424-427: no adapter, the Termux feed is added as it comes
BtTermuxOnly ==
    /\ tpc = "termux_only"
    /\ \E o \in ToolOutcomes : \E devs \in ToolResult(o, TermuxBtOutputs) :
          /\ t_devices' = devs
          /\ items' = items \o devs
          /\ tcalls' = Append(tcalls, [adapter |-> 0, tool |-> "termux",
                                       outcome |-> o, n |-> Len(devs)])
    /\ tpc' = "build"
    /\ UNCHANGED <<adapters, scan_ble, tidx, all_devices, seen_addresses, le, le_read,
                   proc>>
    /\ UNCHANGED <<scan_type, metadata, errors, warnings, envelopes, wvars, cvars,
                   nvars, pvars, dvars, yvars>>

\* after the scans of the adapter of index tidx: the next adapter, or the end
\* of the for loop
AfterAdapter ==
    IF tidx < Len(adapters) THEN tidx' = tidx + 1 /\ tpc' = "classic"
    ELSE UNCHANGED tidx /\ tpc' = "after_adapters"

\* bluetooth_scanner.py:441-460: bring_adapter_up (its result is ignored),
\* scan_classic_bluetooth and the dedup loop on its devices
BtScanClassic ==
    /\ tpc = "classic"
    /\ \E o \in ToolOutcomes : \E devs \in ToolResult(o, ClassicOutputs) :
          LET u == UniqueDevices(devs, seen_addresses, <<>>)
          IN  /\ t_devices' = devs
              /\ all_devices' = all_devices \o u.devs
              /\ seen_addresses' = u.seen
              /\ tcalls' = Append(tcalls, [adapter |-> tidx, tool |-> "classic",
                                           outcome |-> o, n |-> Len(devs)])
    /\ IF scan_ble THEN tpc' = "lescan" /\ UNCHANGED tidx ELSE AfterAdapter
    /\ UNCHANGED <<adapters, scan_ble, le, le_read, proc>>
    /\ BtOnly

\* bluetooth_scanner.py:231-244: Popen of `hcitool lescan`; FileNotFoundError
\* is caught at 287 and the function returns []
BleOpen ==
    /\ tpc = "lescan"
    /\ le' = BleStart /\ le_read' = 0
    /\ \/ /\ proc' = "none" /\ tpc' = "ble_dedup"        \* executable missing
          /\ t_devices' = <<>>
       \/ /\ proc' = "running" /\ tpc' = "ble_while"     \* child started
          /\ UNCHANGED t_devices
    /\ le_signals' = <<>>
    /\ UNCHANGED <<adapters, scan_ble, tidx, all_devices, seen_addresses, tcalls>>
    /\ BleOnly

\* bluetooth_scanner.py:247, `while time.time() - start_time < duration`: the
\* duration has elapsed, or not yet
BleWhile ==
    /\ tpc = "ble_while"
    /\ \/ tpc' = "ble_finally"
       \/ tpc' = "ble_readline"
    /\ UNCHANGED <<adapters, scan_ble, tidx, t_devices, all_devices, seen_addresses,
                   tcalls, le, le_read, proc>>
    /\ BtOnly

\* bluetooth_scanner.py:248-279: process.stdout.readline() returns a line the
\* child has printed, and the line is parsed and merged
BleReadLine ==
    /\ tpc = "ble_readline" /\ proc = "running" /\ le_read < MaxAdv
    /\ \E line \in BleRunLines : le' = BleOnLine(le, line)
    /\ le_read' = le_read + 1
    /\ tpc' = "ble_while"
    /\ UNCHANGED <<adapters, scan_ble, tidx, t_devices, all_devices, seen_addresses,
                   tcalls, proc>>
    /\ BtOnly

\* bluetooth_scanner.py:248-250: the child has closed its output (it exited),
\* readline() returns '' and the loop breaks
BleReadEof ==
    /\ tpc = "ble_readline" /\ proc = "running"
    /\ proc' = "exited"
    /\ tpc' = "ble_finally"
    /\ UNCHANGED <<adapters, scan_ble, tidx, t_devices, all_devices, seen_addresses,
                   tcalls, le, le_read>>
    /\ BtOnly

\* bluetooth_scanner.py:248: readline() raises (text=True decodes the child's
\* bytes, and a device name need not be valid in the locale's encoding); the
\* finally block runs and the exception, which the except clause at 287 does
\* not name, leaves scan_ble_devices and run_bluetooth_scan
BleReadRaises ==
    /\ tpc = "ble_readline" /\ proc = "running" /\ le_read < MaxAdv
    /\ le_read' = le_read + 1
    /\ tpc' = "ble_finally_exc"
    /\ UNCHANGED <<adapters, scan_ble, tidx, t_devices, all_devices, seen_addresses,
                   tcalls, le, proc>>
    /\ BtOnly

\* mutant: a running child is killed at once, with no terminate() and no wait
BleFinally_kills_at_once ==
    /\ tpc \in {"ble_finally", "ble_finally_exc"}
    /\ \/ proc = "exited" /\ UNCHANGED proc /\ le_signals' = <<"terminate">>
       \/ proc = "running" /\ proc' = "killed" /\ le_signals' = <<"kill">>
    /\ IF tpc = "ble_finally"
       THEN t_devices' = le.devices /\ tpc' = "ble_dedup"
       ELSE UNCHANGED t_devices /\ tpc' = "raised"
    /\ UNCHANGED <<adapters, scan_ble, tidx, all_devices, seen_addresses, tcalls, le,
                   le_read>>
    /\ BleOnly

\* bluetooth_scanner.py:280-290: terminate(), wait(timeout=2), kill() when the
\* child has not exited in time; then return devices, or the exception that
\* left the loop goes on
BleFinally ==
    /\ tpc \in {"ble_finally", "ble_finally_exc"}
    /\ \/ proc = "exited" /\ UNCHANGED proc /\ le_signals' = <<"terminate">>
       \/ proc = "running" /\ proc' = "terminated" /\ le_signals' = <<"terminate">>
       \/ proc = "running" /\ proc' = "killed"
                           /\ le_signals' = <<"terminate", "kill">>
    /\ IF tpc = "ble_finally"
       THEN t_devices' = le.devices /\ tpc' = "ble_dedup"
       ELSE UNCHANGED t_devices /\ tpc' = "raised"
    /\ UNCHANGED <<adapters, scan_ble, tidx, all_devices, seen_addresses, tcalls, le,
                   le_read>>
    /\ BleOnly

\* bluetooth_scanner.py:470-476: the dedup loop on the devices of the LE scan
BtAddBle ==
    /\ tpc = "ble_dedup"
    /\ LET u == UniqueDevices(t_devices, seen_addresses, <<>>)
       IN  /\ all_devices' = all_devices \o u.devs
           /\ seen_addresses' = u.seen
    /\ tcalls' = Append(tcalls, [adapter |-> tidx, tool |-> "lescan",
                                 outcome |-> IF proc = "none" THEN "missing" ELSE "started",
                                 n |-> Len(t_devices)])
    /\ proc' = "none"
    /\ AfterAdapter
    /\ UNCHANGED <<adapters, scan_ble, t_devices, le, le_read>>
    /\ BtOnly

\* mutant: the Termux feed is asked after the adapters whatever they found
BtAddDevices_always_termux ==
    /\ tpc = "after_adapters"
    /\ \E o \in ToolOutcomes : \E devs \in ToolResult(o, TermuxBtOutputs) :
          LET u == UniqueDevices(devs, seen_addresses, <<>>)
          IN  /\ t_devices' = devs
              /\ all_devices' = all_devices \o u.devs
              /\ seen_addresses' = u.seen
              /\ items' = items \o all_devices \o u.devs
              /\ tcalls' = Append(tcalls, [adapter |-> 0, tool |-> "termux",
                                           outcome |-> o, n |-> Len(devs)])
    /\ tpc' = "build"
    /\ UNCHANGED <<adapters, scan_ble, tidx, le, le_read, proc>>
    /\ UNCHANGED <<scan_type, metadata, errors, warnings, envelopes, wvars, cvars,
                   nvars, pvars, dvars, yvars>>

\* bluetooth_scanner.py:481-492: the Termux feed when no device was collected,
\* then every collected device is added to the builder
BtAddDevices ==
    /\ tpc = "after_adapters"
    /\ \/ /\ all_devices = <<>>
          /\ \E o \in ToolOutcomes : \E devs \in ToolResult(o, TermuxBtOutputs) :
                LET u == UniqueDevices(devs, seen_addresses, <<>>)
                IN  /\ t_devices' = devs
                    /\ all_devices' = u.devs
                    /\ seen_addresses' = u.seen
                    /\ items' = items \o u.devs
                    /\ tcalls' = Append(tcalls, [adapter |-> 0, tool |-> "termux",
                                                 outcome |-> o, n |-> Len(devs)])
       \/ /\ all_devices # <<>>
          /\ items' = items \o all_devices
          /\ UNCHANGED <<t_devices, all_devices, seen_addresses, tcalls>>
    /\ tpc' = "build"
    /\ UNCHANGED <<adapters, scan_ble, tidx, le, le_read, proc>>
    /\ UNCHANGED <<scan_type, metadata, errors, warnings, envelopes, wvars, cvars,
                   nvars, pvars, dvars, yvars>>

\* bluetooth_scanner.py:505-513: result = builder.build(); with an output
\* directory builder.save() builds a second envelope; result is returned
BtBuild ==
    /\ tpc = "build"
    /\ \/ envelopes' = <<BuildResult>>
       \/ envelopes' = <<BuildResult, BuildResult>>
    /\ tpc' = "done"
    /\ UNCHANGED <<adapters, scan_ble, tidx, t_devices, all_devices, seen_addresses,
                   tcalls, le, le_read, proc>>
    /\ UNCHANGED <<scan_type, items, metadata, errors, warnings, wvars, cvars, nvars,
                   pvars, dvars, yvars>>

\* the steps run_bluetooth_scan takes by itself
BtProgram ==
    \/ BtGetAdapters
    \/ BtTermuxOnly
    \/ BtScanClassic
    \/ BleOpen
    \/ BleWhile
    \/ BleFinally
    \/ BtAddBle
    \/ BtAddDevices
    \/ BtBuild

\* the steps that wait for the lescan child: it prints a line or closes its
\* output when it does, if ever
BtChild == BleReadLine \/ BleReadEof \/ BleReadRaises

NextBt == BtProgram \/ BtChild

SpecBt == InitBt /\ [][NextBt]_vars

\* Every subprocess.run call has a timeout and the run itself keeps taking its
\* steps; nothing makes the lescan child print or exit.
SpecBtLive == SpecBt /\ WF_vars(BtProgram)

\* ------------------------------------------------------------------------
\* Claims on run_bluetooth_scan
\* ------------------------------------------------------------------------

\* C20 (as claimed): whatever the outcomes of the tool invocations (executable
\* missing, timeout, non-zero exit, success, a child that prints or not),
\* run_bluetooth_scan ends and returns an envelope, and a missing tool and a
\* timed-out tool both give no record, hence the same next step.
C20_NoToolFailureIsFatal ==
    /\ <>(tpc = "done" /\ envelopes # <<>>)
    /\ [](\A i \in DOMAIN tcalls :
              tcalls[i].outcome \in {"missing", "timeout"} => tcalls[i].n = 0)

\* ------------------------------------------------------------------------
\* scanners/network_scanner.py : run_network_scan
\* ------------------------------------------------------------------------
MaxIfaces == 2       \* interfaces get_network_interfaces returns

\* The interfaces the enumerator may list: [name, state, ipv4], ipv4 a list of
\* [address, prefix] (network_scanner.py:58-77).
NetInterfaces ==
    { [name |-> "lo", state |-> "UNKNOWN",
       ipv4 |-> <<[address |-> <<127, 0, 0, 1>>, prefix |-> 8]>>],
      [name |-> "wlan0", state |-> "UP",
       ipv4 |-> <<[address |-> <<10, 0, 0, 9>>, prefix |-> 30]>>],
      [name |-> "eth0", state |-> "DOWN",
       ipv4 |-> <<[address |-> <<192, 168, 1, 77>>, prefix |-> 31]>>],
      [name |-> "eth1", state |-> "UP",
       ipv4 |-> <<[address |-> <<127, 0, 0, 2>>, prefix |-> 8],
                  [address |-> <<192, 168, 1, 77>>, prefix |-> 31]>>],
      [name |-> "dummy0", state |-> "UP", ipv4 |-> <<>>] }
NetInterfaceLists == SeqsUpTo(NetInterfaces, MaxIfaces)
Gateways  == {None, Some([ip |-> <<10, 0, 0, 10>>, interface |-> "wlan0"])}
ArpTables == {<<>>, <<[ip |-> <<10, 0, 0, 10>>, mac |-> "AA:AA:AA:AA:AA:AA"]>>}

\* what discover_hosts(network) may return (network_scanner.py:323-367): the
\* targets that answered, in ascending order; with port_scan each host gets
\* the sorted list of its open ports (network_scanner.py:536-540)
OpenPorts == {<<>>, <<[port |-> 22, service |-> "ssh", protocol |-> "tcp"]>>}
DiscoverOutputs(n, with_ports) ==
    LET T == TargetList(n)
    IN  UNION { IF with_ports
                THEN { [i \in 1..Len(SelectSeq(T, LAMBDA x : x \in S)) |->
                          [ip |-> SelectSeq(T, LAMBDA x : x \in S)[i], alive |-> TRUE,
                           latency_ms |-> Some(1), hostname |-> "None",
                           open_ports |-> op] ] : op \in OpenPorts }
                ELSE { [i \in 1..Len(SelectSeq(T, LAMBDA x : x \in S)) |->
                          [ip |-> SelectSeq(T, LAMBDA x : x \in S)[i], alive |-> TRUE,
                           latency_ms |-> Some(1), hostname |-> "None"] ] }
              : S \in SUBSET Range(T) }

\* network_scanner.py:524-527: `if not ip_addr or ip_addr.startswith('127.')`
SkippedAddress(ipv4_info) == ipv4_info.address[1] = 127

\* network_scanner.py:529, network = f"{ip_addr}/{prefix}"
NetworkOf(ipv4_info) == [addr |-> ipv4_info.address, prefix |-> ipv4_info.prefix]

RECURSIVE Flatten(_)
Flatten(ll) == IF ll = <<>> THEN <<>> ELSE Head(ll) \o Flatten(Tail(ll))

InitNetRun ==
    /\ BuilderInit("network") /\ IdleWifi /\ IdleConv /\ IdleNet
    /\ IdleParse /\ IdleDedup /\ IdleBt /\ IdleMerge /\ IdleIwCmds /\ IdleEnum
    /\ IdleHist /\ IdleArp
    /\ rpc = "start" /\ port_scan \in BOOLEAN
    /\ r_interfaces = <<>> /\ r_idx = 0 /\ discovered_hosts = <<>>

NetRunOnly ==
    UNCHANGED <<wvars, cvars, nvars, pvars, dvars, tvars, mvars, ivars, evars, hvars,
               avars>>

\* network_scanner.py:487-511: the interfaces, the default gateway and the ARP
\* table go to the metadata; nothing else is done with an empty list
NetGetInterfaces ==
    /\ rpc = "start"
    /\ \E ifs \in NetInterfaceLists, gateway \in Gateways, arp_table \in ArpTables :
          /\ r_interfaces' = ifs
          /\ metadata' = DictSet(DictSet(DictSet(metadata, "interfaces", ifs),
                                         "gateway", gateway), "arp_table", arp_table)
    /\ rpc' = "loop"
    /\ r_idx' = 1
    /\ UNCHANGED <<port_scan, discovered_hosts>>
    /\ UNCHANGED <<scan_type, items, errors, warnings, envelopes>>
    /\ NetRunOnly

\* network_scanner.py:516-542: one iteration of `for iface in interfaces`
NetScanInterface ==
    /\ rpc = "loop"
    /\ r_idx <= Len(r_interfaces)
    /\ LET iface == r_interfaces[r_idx]
       IN  IF iface.state # "UP"
           THEN UNCHANGED discovered_hosts
           ELSE \E found \in [DOMAIN iface.ipv4 ->
                                 {<<>>} \cup
                                 UNION {DiscoverOutputs(NetworkOf(a), port_scan)
                                           : a \in {x \in Range(iface.ipv4) :
                                                       ~SkippedAddress(x)}}] :
                   /\ \A j \in DOMAIN iface.ipv4 :
                         IF SkippedAddress(iface.ipv4[j])
                         THEN found[j] = <<>>
                         ELSE found[j] \in DiscoverOutputs(NetworkOf(iface.ipv4[j]),
                                                           port_scan)
                   /\ discovered_hosts' = discovered_hosts \o Flatten(found)
    /\ r_idx' = r_idx + 1
    /\ UNCHANGED <<rpc, port_scan, r_interfaces>>
    /\ UNCHANGED bvars
    /\ NetRunOnly

\* network_scanner.py:544-546: every discovered host is added
NetAddHosts ==
    /\ rpc = "loop"
    /\ r_idx > Len(r_interfaces)
    /\ items' = items \o discovered_hosts
    /\ rpc' = "build"
    /\ UNCHANGED <<port_scan, r_interfaces, r_idx, discovered_hosts>>
    /\ UNCHANGED <<scan_type, metadata, errors, warnings, envelopes>>
    /\ NetRunOnly

\* network_scanner.py:551-559: result = builder.build(); with an output
\* directory builder.save() builds a second envelope; result is returned
NetBuild ==
    /\ rpc = "build"
    /\ \/ envelopes' = <<BuildResult>>
       \/ envelopes' = <<BuildResult, BuildResult>>
    /\ rpc' = "done"
    /\ UNCHANGED <<port_scan, r_interfaces, r_idx, discovered_hosts>>
    /\ UNCHANGED <<scan_type, items, metadata, errors, warnings>>
    /\ NetRunOnly

NextNetRun == NetGetInterfaces \/ NetScanInterface \/ NetAddHosts \/ NetBuild

SpecNetRun == InitNetRun /\ [][NextNetRun]_vars

\* the envelope a run returns
RunResult == envelopes[1]

\* C21: for each domain (network, wireless, Bluetooth), when the adapter
\* enumerator returned an empty sequence the run returns an envelope, and the
\* envelope has a warning (any warning counts as the report that no
\* adapter/interface was found) and no entry in errors.
C21_NoAdapterIsWarned ==
    /\ (wpc = "done" /\ interfaces = <<>>) =>
          /\ "No wireless interfaces found" \in Range(EnvWarnings(RunResult))
          /\ RunResult.errors = Absent
    /\ (tpc = "done" /\ adapters = <<>>) =>
          /\ "No Bluetooth adapters found" \in Range(EnvWarnings(RunResult))
          /\ RunResult.errors = Absent
    /\ (rpc = "done" /\ r_interfaces = <<>>) =>
          /\ RunResult.warnings # Absent
          /\ EnvWarnings(RunResult) # <<>>
          /\ RunResult.errors = Absent

\* C22: every record of a returned envelope's data carries a non-empty
\* canonical identifier (ip for network hosts, bssid for wifi networks,
\* address for Bluetooth devices) and a MAC-like identifier has no lowercase
\* hexadecimal digit, for the records of every source, the Termux feeds and
\* the path taken when no adapter is found included.
C22_CanonicalIdentifier ==
    /\ wpc = "done" =>
          \A k \in DOMAIN EnvData(RunResult) :
             /\ EnvData(RunResult)[k].bssid # ""
             /\ Upper(EnvData(RunResult)[k].bssid) = EnvData(RunResult)[k].bssid
    /\ tpc = "done" =>
          \A k \in DOMAIN EnvData(RunResult) :
             /\ EnvData(RunResult)[k].address # ""
             /\ Upper(EnvData(RunResult)[k].address) = EnvData(RunResult)[k].address
    /\ rpc = "done" =>
          \A k \in DOMAIN EnvData(RunResult) : Len(EnvData(RunResult)[k].ip) = 4

\* ------------------------------------------------------------------------
\* lib/json_utils.py : merge_scans
\* ------------------------------------------------------------------------
MaxScans == 3        \* envelopes handed to merge_scans

\* The envelopes merge_scans is called with: dicts with a "scan_type" key, or
\* without one (a file that no scanner wrote); two envelopes of one type
\* differ in their timestamp.
ScanInputs ==
    [scan_type : {Some("wifi"), Some("network"), None},
     timestamp : {"t1", "t2"}]

\* json_utils.py:164, scan.get("scan_type", "unknown")
ScanTypeOf(scan) == IF scan.scan_type = None THEN "unknown" ELSE TheVal(scan.scan_type)

\* json_utils.py:163-165, the loop: combined["scans"][scan_type] = scan
RECURSIVE MergeLoop(_, _)
MergeLoop(d, ss) ==
    IF ss = <<>> THEN d
    ELSE MergeLoop(DictSet(d, ScanTypeOf(Head(ss)), Head(ss)), Tail(ss))

\* json_utils.py:143-167
merge_scans(ss) ==
    [scan_type |-> "combined", version |-> "1.0.0",
     scans |-> MergeLoop(EmptyDict, ss),
     metadata |-> [source_scans |-> Len(ss)]]

InitMerge ==
    /\ IdleBuilder /\ IdleWifi /\ IdleConv /\ IdleNet
    /\ IdleParse /\ IdleDedup /\ IdleBt /\ IdleRun /\ IdleIwCmds /\ IdleEnum
    /\ IdleHist /\ IdleArp
    /\ mpc = "merge"
    /\ scans \in SeqsUpTo(ScanInputs, MaxScans)
    /\ scans0 = scans
    /\ combined = None

\* merge_scans(scans) is called and returns; the argument is only read
MergeScans ==
    /\ mpc = "merge"
    /\ combined' = Some(merge_scans(scans))
    /\ mpc' = "merged"
    /\ UNCHANGED <<scans, scans0>>
    /\ UNCHANGED <<bvars, wvars, cvars, nvars, pvars, dvars, tvars, rvars, ivars, evars,
                   hvars, avars>>

NextMerge == MergeScans

SpecMerge == InitMerge /\ [][NextMerge]_vars

\* C23: merge_scans over N envelopes modifies none of its inputs and returns
\* a combined envelope, keyed by scan_type, that contains all N input
\* envelopes, with metadata.source_scans equal to the number of envelopes it
\* contains (also when several inputs have the same scan_type).
C23_MergeKeepsAll ==
    mpc = "merged" =>
        LET c == TheVal(combined)
        IN  /\ scans = scans0
            /\ c.scan_type = "combined"
            /\ \A k \in DOMAIN c.scans : ScanTypeOf(c.scans[k]) = k
            /\ \A i \in DOMAIN scans0 : \E k \in DOMAIN c.scans : c.scans[k] = scans0[i]
            /\ c.metadata.source_scans = Cardinality(DOMAIN c.scans)

\* C24: the duration of the LE scan is enforced: in every execution of
\* scan_ble_devices, also when the child prints nothing or stalls between two
\* lines, the read loop ends, the child is then terminated (or has exited),
\* and the function returns.
C24_LeScanDurationEnforced ==
    /\ [](proc = "running" => <>(tpc = "ble_dedup"))
    /\ [](tpc = "ble_dedup" => proc # "running")

\* ------------------------------------------------------------------------
\* Claims on the probes of discover_hosts and scan_host_ports
\* ------------------------------------------------------------------------

\* the records of the returned list that stand for the target at index i
C25_RecordsOf(i) ==
    {k \in DOMAIN result :
        IF npc = "dh_returned" THEN result[k].ip = ip_list[i]
        ELSE result[k].port = ip_list[i]}

\* one step of the prober, seen from the target at index i
C25_TargetStep(i) ==
    /\ futures[i] # "pending" =>
          /\ futures'[i] # "pending"
          /\ outcome'[i] = outcome[i]
    /\ (futures[i] = "pending" /\ futures'[i] # "pending") =>
          /\ futures'[i] = "done"
          /\ hosts' = hosts
          /\ \A j \in DOMAIN futures \ {i} :
                futures'[j] = futures[j] /\ outcome'[j] = outcome[j]

\* C25: in discover_hosts and scan_host_ports every target is probed exactly
\* once (a probe that has returned is never started again and its outcome
\* never changes); a probe that times out or fails gives a failed outcome for
\* its own target and changes neither the outcome of another target nor the
\* list of records; the call returns with every target collected, and a
\* target is in the result exactly as many times as a probe of it succeeded
\* (once or not at all, unless the caller lists a port twice), also when the
\* reverse lookup of its name failed.
C25_ProbeFailureIsLocal ==
    /\ [][\A i \in DOMAIN futures : C25_TargetStep(i)]_vars
    /\ [](npc \in {"dh_returned", "sp_returned"} =>
            \A i \in DOMAIN ip_list :
               /\ futures[i] = "collected"
               /\ Cardinality(C25_RecordsOf(i)) = C10_Successes(ip_list[i])
               /\ ~outcome[i].alive => outcome[i].latency = None)

\* C25 witness: of two targets the first probe failed and the second
\* succeeded, the reverse lookup of the second failed, and the result is the
\* second target alone, without a name.
C25_Witness ==
    /\ npc = "dh_returned"
    /\ Len(ip_list) = 2
    /\ ~outcome[1].alive /\ outcome[2].alive
    /\ Len(result) = 1
    /\ result[1].ip = ip_list[2] /\ result[1].hostname = "None"

\* ------------------------------------------------------------------------
\* Claims on the fields and the security inference of the wifi parsers
\* ------------------------------------------------------------------------

\* the first element of a non-empty set of indices
C26_First(S) == CHOOSE i \in S : \A j \in S : i <= j

\* C26 (as claimed): first match wins for the scalar fields: in the parse of
\* an iw dump the ssid, frequency and signal_dbm of a record are those of the
\* first SSID / freq / signal line of its block, and its channel that of the
\* first freq line; a later matching line of the block changes nothing.
C26_FirstMatchWins ==
    ParseDone /\ p_tool = "iw" =>
        \A k \in DOMAIN p_networks :
           LET b == C11_Boundaries[k]
               r == p_networks[k]
               ss == C11_Block(b, "SSID")
               fs == C11_Block(b, "freq")
               gs == C11_Block(b, "signal")
           IN  /\ ss # {} =>
                    r.ssid = IF p_lines[C26_First(ss)].s = "" THEN Some("<hidden>")
                             ELSE Some(p_lines[C26_First(ss)].s)
               /\ fs # {} =>
                    /\ r.frequency = Some(p_lines[C26_First(fs)].n)
                    /\ r.channel = freq_to_channel(p_lines[C26_First(fs)].n)
               /\ gs # {} => r.signal_dbm = Some(p_lines[C26_First(gs)].n)

\* the marker lines of the block opened at b: iw prints `WPA:`, `RSN:` and
\* `Privacy`; iwlist prints `Encryption key:on` and the information elements
C27_Markers(b) ==
    {i \in DOMAIN p_lines :
        /\ i > b
        /\ p_lines[i].kind \in {"WPA:", "RSN:", "Privacy", "Encryption key:on",
                                "WPA2", "WEP"}
        /\ \A j \in (b + 1)..i : p_lines[j].kind \notin {"BSS", "Cell"}}

\* C27 (as claimed): the encryption list of every record returned by the iw
\* parser and by the iwlist parser has no duplicate entry, however often a
\* marker line occurs in the record's block.
C27_NoDuplicateEncryption ==
    (ParseDone /\ p_tool \in {"iw", "iwlist"}) =>
        \A k \in DOMAIN p_networks :
           \A i, j \in DOMAIN p_networks[k].encryption :
              i # j => p_networks[k].encryption[i] # p_networks[k].encryption[j]

\* the boundary line of the k-th returned record
C28_Boundary(k) ==
    SelectSeq([i \in DOMAIN p_lines |-> i],
              LAMBDA i : p_lines[i].kind \in {"BSS", "Cell"})[k]

\* C28 (as claimed): for every record the iw and iwlist parsers return,
\* security is 'Open' exactly when no security marker occurs in the record's
\* block, and when a marker occurs security is 'Secured' and the encryption
\* list is not empty; so security is 'Secured' exactly when encryption is not
\* empty.
C28_SecurityInference ==
    (ParseDone /\ p_tool \in {"iw", "iwlist"} /\ p_raised = None) =>
        \A k \in DOMAIN p_networks :
           LET r == p_networks[k]
               marked == C27_Markers(C28_Boundary(k)) # {}
           IN  /\ r.security = "Open" <=> ~marked
               /\ marked => (r.security = "Secured" /\ r.encryption # <<>>)
               /\ r.security = "Secured" <=> r.encryption # <<>>

\* ------------------------------------------------------------------------
\* scanners/wifi_scanner.py : scan_wifi_networks_iw, its commands
\* ------------------------------------------------------------------------
MaxDump == 2         \* lines of the output of `iw <if> scan dump` / `iw <if> scan`

\* what a command that exits with status 0 may print
IwDumps == SeqsUpTo(IwLines, MaxDump)

\* wifi_scanner.py:168-232: the parse of the output, line by line
RECURSIVE IwParseFrom(_, _, _)
IwParseFrom(cur, nets, lines) ==
    IF lines = <<>> THEN Flushed(cur, nets)
    ELSE LET r == IwOnLine(cur, nets, Head(lines))
         IN  IwParseFrom(r.cur, r.nets, Tail(lines))

\* how a later command of the same tool can end
IwEnds == {"timeout", "nonzero", "success"}

InitIwCmds ==
    /\ IdleBuilder /\ IdleWifi /\ IdleConv /\ IdleNet
    /\ IdleParse /\ IdleDedup /\ IdleBt /\ IdleRun /\ IdleMerge /\ IdleEnum
    /\ IdleHist /\ IdleArp
    /\ ipc = "trigger" /\ iw_cmds = <<>> /\ iw_stdout = None /\ iw_networks = <<>>

IwCmdsOnly ==
    UNCHANGED <<bvars, wvars, cvars, nvars, pvars, dvars, tvars, rvars, mvars, evars,
                hvars, avars>>

\* wifi_scanner.py:142-146: `iw <if> scan trigger` with timeout 5; its exit
\* status is not looked at; FileNotFoundError and TimeoutExpired leave the
\* try block (234) and [] is returned
IwTrigger ==
    /\ ipc = "trigger"
    /\ \E how \in ToolOutcomes :
          /\ iw_cmds' = Append(iw_cmds, [cmd |-> "trigger", how |-> how])
          /\ ipc' = IF how \in {"missing", "timeout"} THEN "returned" ELSE "sleep"
    /\ UNCHANGED <<iw_stdout, iw_networks>>
    /\ IwCmdsOnly

\* wifi_scanner.py:149, time.sleep(2)
IwSleep ==
    /\ ipc = "sleep"
    /\ iw_cmds' = Append(iw_cmds, [cmd |-> "sleep", how |-> "success"])
    /\ ipc' = "dump"
    /\ UNCHANGED <<iw_stdout, iw_networks>>
    /\ IwCmdsOnly

\* wifi_scanner.py:152-159: `iw <if> scan dump` with timeout 30; a non-zero
\* exit leads to the plain scan, TimeoutExpired leaves the try block
IwDump ==
    /\ ipc = "dump"
    /\ \E how \in IwEnds :
          /\ iw_cmds' = Append(iw_cmds, [cmd |-> "dump", how |-> how])
          /\ \/ /\ how = "timeout"
                /\ ipc' = "returned" /\ UNCHANGED iw_stdout
             \/ /\ how = "nonzero"
                /\ ipc' = "scan" /\ UNCHANGED iw_stdout
             \/ /\ how = "success"
                /\ ipc' = "parse"
                /\ \E out \in IwDumps : iw_stdout' = Some(out)
    /\ UNCHANGED iw_networks
    /\ IwCmdsOnly

\* wifi_scanner.py:159-166: `iw <if> scan` with timeout 30, then the test
\* `result.returncode == 0` (168)
IwPlainScan ==
    /\ ipc = "scan"
    /\ \E how \in IwEnds :
          /\ iw_cmds' = Append(iw_cmds, [cmd |-> "scan", how |-> how])
          /\ \/ /\ how \in {"timeout", "nonzero"}
                /\ ipc' = "returned" /\ UNCHANGED iw_stdout
             \/ /\ how = "success"
                /\ ipc' = "parse"
                /\ \E out \in IwDumps : iw_stdout' = Some(out)
    /\ UNCHANGED iw_networks
    /\ IwCmdsOnly

\* wifi_scanner.py:168-237: the output is parsed and the list returned
IwParseOutput ==
    /\ ipc = "parse"
    /\ iw_networks' = IwParseFrom(None, <<>>, TheVal(iw_stdout))
    /\ ipc' = "returned"
    /\ UNCHANGED <<iw_cmds, iw_stdout>>
    /\ IwCmdsOnly

NextIwCmds == IwTrigger \/ IwSleep \/ IwDump \/ IwPlainScan \/ IwParseOutput

SpecIwCmds == InitIwCmds /\ [][NextIwCmds]_vars

\* the steps of the history that ran command c
C29_Issued(c) == {i \in DOMAIN iw_cmds : iw_cmds[i].cmd = c}

\* C29 (as claimed): scan_wifi_networks_iw issues its commands in the order
\* trigger, settle delay, `scan dump`; the plain `scan` is issued exactly when
\* the dump failed (non-zero exit or timeout), and at most once; records are
\* parsed only from a command that exited with status 0, and the result is
\* empty when the dump and the retry both fail.
C29_TwoPhaseScan ==
    ipc = "returned" =>
        /\ \A i \in DOMAIN iw_cmds :
              iw_cmds[i].cmd = <<"trigger", "sleep", "dump", "scan">>[i]
        /\ C29_Issued("scan") # {} <=>
              \E i \in C29_Issued("dump") : iw_cmds[i].how # "success"
        /\ iw_stdout # None => iw_cmds[Len(iw_cmds)].how = "success"
        /\ iw_stdout = None => iw_networks = <<>>
        /\ (\A i \in C29_Issued("dump") \cup C29_Issued("scan") :
               iw_cmds[i].how # "success") => iw_networks = <<>>

\* ------------------------------------------------------------------------
\* The adapter enumerators: get_wireless_interfaces (wifi_scanner.py:30-76),
\* get_bluetooth_adapters (bluetooth_scanner.py:79-143) and
\* get_network_interfaces (network_scanner.py:37-150).  An adapter stands for
\* the entry the enumerator builds for it and is written as its name.
\* ------------------------------------------------------------------------
MaxAdapters == 2     \* adapters one command or one directory lists

Domains == {"wifi", "bluetooth", "network"}

\* the adapters the primary command of a domain may list after exit status 0
AdapterNames(domain) ==
    CASE domain = "wifi"      -> {"wlan0", "wlan1"}
      [] domain = "bluetooth" -> {"hci0", "hci1"}
      [] OTHER                -> {"lo", "wlan0"}
Listings(domain) == SeqsUpTo(AdapterNames(domain), MaxAdapters)

\* how the primary command can end; "badjson" is exit status 0 with an output
\* json.loads rejects (network_scanner.py:83), for `ip -j addr show` only
PrimaryEnds(domain) ==
    IF domain = "network" THEN ToolOutcomes \cup {"badjson"} ELSE ToolOutcomes

\* wifi_scanner.py:71, the conventional names probed in /sys/class/net
common_names == <<"wlan0", "wlan1", "wlp2s0", "wlp3s0", "wifi0">>

\* mutant: the filesystem is inspected whatever the primary command listed
AfterPrimary_always_filesystem(domain, listed) ==
    IF domain = "network" THEN "text" ELSE "filesystem"

\* where the enumerator goes after the primary command, `listed` being None
\* when the command failed and the parsed listing otherwise:
\* wifi_scanner.py:48-58 (`if interfaces: return interfaces`),
\* bluetooth_scanner.py:96-131 (`if not adapters:`), network_scanner.py:55-87
\* (return inside the try block, whatever the length of the list)
AfterPrimary(domain, listed) ==
    CASE domain = "network" -> IF listed # None THEN "returned" ELSE "text"
      [] OTHER -> IF listed # None /\ TheVal(listed) # <<>> THEN "returned"
                  ELSE "filesystem"

InitEnum ==
    /\ IdleBuilder /\ IdleWifi /\ IdleConv /\ IdleNet
    /\ IdleParse /\ IdleDedup /\ IdleBt /\ IdleRun /\ IdleMerge /\ IdleIwCmds
    /\ IdleHist /\ IdleArp
    /\ epc = "primary" /\ e_domain \in Domains /\ e_listing = None
    /\ e_trace = <<>> /\ e_interfaces = <<>>

EnumOnly ==
    UNCHANGED <<bvars, wvars, cvars, nvars, pvars, dvars, tvars, rvars, mvars, ivars,
                hvars, avars>>

\* the primary listing command: `iw dev` (wifi_scanner.py:40-58),
\* `hciconfig -a` (bluetooth_scanner.py:89-126), `ip -j addr show`
\* (network_scanner.py:46-89)
EnumPrimary ==
    /\ epc = "primary"
    /\ \E how \in PrimaryEnds(e_domain) :
       \E listed \in IF how = "success"
                     THEN {Some(l) : l \in Listings(e_domain)} ELSE {None} :
          /\ e_listing' = listed
          /\ e_interfaces' = IF listed # None THEN TheVal(listed) ELSE <<>>
          /\ e_trace' = Append(e_trace, [stage |-> "primary", how |-> how,
                                         n |-> IF listed # None
                                               THEN Len(TheVal(listed)) ELSE 0])
          /\ epc' = AfterPrimary(e_domain, listed)
    /\ UNCHANGED e_domain
    /\ EnumOnly

\* the filesystem path: /sys/class/net/*/wireless (wifi_scanner.py:60-67),
\* /sys/class/bluetooth (bluetooth_scanner.py:129-141); listdir may raise
\* OSError, which is caught
EnumFilesystem ==
    /\ epc = "filesystem"
    /\ \E how \in {"OSError", "success"} :
       \E found \in IF how = "success" THEN Listings(e_domain) ELSE {<<>>} :
          /\ e_interfaces' = e_interfaces \o found
          /\ e_trace' = Append(e_trace, [stage |-> "filesystem", how |-> how,
                                         n |-> Len(found)])
          /\ epc' = IF e_domain = "wifi" /\ e_interfaces \o found = <<>>
                    THEN "names" ELSE "returned"
    /\ UNCHANGED <<e_domain, e_listing>>
    /\ EnumOnly

\* wifi_scanner.py:69-74: the conventional names that exist are appended
EnumNames ==
    /\ epc = "names"
    /\ \E existing \in SUBSET Range(common_names) :
          /\ e_interfaces' = e_interfaces \o
                                SelectSeq(common_names, LAMBDA x : x \in existing)
          /\ e_trace' = Append(e_trace, [stage |-> "names", how |-> "success",
                                         n |-> Cardinality(existing)])
    /\ epc' = "returned"
    /\ UNCHANGED <<e_domain, e_listing>>
    /\ EnumOnly

\* network_scanner.py:91-150: the text output of `ip addr show` is parsed
EnumText ==
    /\ epc = "text"
    /\ \E how \in ToolOutcomes :
       \E found \in ToolResult(how, Listings(e_domain)) :
          /\ e_interfaces' = e_interfaces \o found
          /\ e_trace' = Append(e_trace, [stage |-> "text", how |-> how,
                                         n |-> Len(found)])
    /\ epc' = "returned"
    /\ UNCHANGED <<e_domain, e_listing>>
    /\ EnumOnly

NextEnum == EnumPrimary \/ EnumFilesystem \/ EnumNames \/ EnumText

SpecEnum == InitEnum /\ [][NextEnum]_vars

\* the steps of the history that entered stage s
C30_Entered(s) == {i \in DOMAIN e_trace : e_trace[i].stage = s}

\* C30: for each domain the enumerator first uses the primary listing
\* command; the filesystem path is inspected only when the primary failed
\* (tool missing, non-zero exit, timeout) or listed nothing; the fixed list of
\* conventional names is probed only when the filesystem path yielded
\* nothing; and when the primary lists at least one adapter the result is
\* exactly that listing.
C30_EnumerationOrder ==
    epc = "returned" =>
        /\ e_trace[1].stage = "primary" /\ C30_Entered("primary") = {1}
        /\ C30_Entered("filesystem") # {} =>
              /\ C30_Entered("filesystem") = {2}
              /\ e_trace[1].how \in {"missing", "nonzero", "timeout"} \/ e_trace[1].n = 0
        /\ C30_Entered("names") # {} =>
              /\ C30_Entered("names") = {3}
              /\ e_trace[2].stage = "filesystem" /\ e_trace[2].n = 0
        /\ (e_trace[1].how = "success" /\ e_trace[1].n > 0) =>
              /\ e_interfaces = TheVal(e_listing)
              /\ Len(e_trace) = 1

\* C30 witness: `iw dev` exited non-zero, /sys/class/net held no wireless
\* interface, and of the conventional names wlan0 exists and is returned.
C30_Witness ==
    /\ epc = "returned" /\ e_domain = "wifi"
    /\ Len(e_trace) = 3
    /\ e_trace[1].how = "nonzero"
    /\ e_trace[2].stage = "filesystem" /\ e_trace[2].how = "success"
    /\ e_trace[3].stage = "names"
    /\ e_interfaces = <<"wlan0">>

\* ------------------------------------------------------------------------
\* Claims on the writers of the prober's collections
\* ------------------------------------------------------------------------

\* the futures a step moves from one position to another
C31_Moved(from, to) ==
    {i \in DOMAIN futures : futures[i] = from /\ futures'[i] = to}

\* C31: during discover_hosts and scan_host_ports a worker thread writes no
\* shared collection and no record: a step in which a probe returns leaves
\* the list of records, the target list and the result unchanged; every
\* change of the list of records is the append of one record by the
\* orchestrating thread, for one future that had completed with success, and
\* touches no outcome; so two writes to the list never interleave.
C31_SingleWriter ==
    /\ [][C31_Moved("pending", "done") # {} =>
             /\ hosts' = hosts /\ result' = result /\ ip_list' = ip_list
             /\ Cardinality(C31_Moved("pending", "done")) = 1]_vars
    /\ [][hosts' # hosts =>
             /\ Len(hosts') = Len(hosts) + 1
             /\ SubSeq(hosts', 1, Len(hosts)) = hosts
             /\ outcome' = outcome
             /\ C31_Moved("pending", "done") = {}
             /\ \E i \in DOMAIN futures :
                   /\ C31_Moved("done", "collected") = {i}
                   /\ outcome[i].alive
                   /\ IF npc = "dh_collecting"
                      THEN hosts'[Len(hosts')].ip = ip_list[i]
                      ELSE hosts'[Len(hosts')].port = ip_list[i]]_vars

\* C31 witness: the orchestrating thread has appended the record of one
\* target while the probe of another target is still running.
C31_Witness ==
    /\ npc = "dh_collecting"
    /\ Len(hosts) = 1
    /\ \E i \in DOMAIN futures : futures[i] = "pending"

\* ------------------------------------------------------------------------
\* Further claims on run_bluetooth_scan
\* ------------------------------------------------------------------------

\* C32 (as claimed, any warning counting as the report of the denial): when a
\* scanning tool was refused for lack of privilege (it exits with a non-zero
\* status), the run goes on with the remaining sources and the returned
\* envelope carries a warning.
C32_DenialIsWarned ==
    (tpc = "done" /\ \E i \in DOMAIN tcalls : tcalls[i].outcome = "nonzero") =>
        /\ RunResult.warnings # Absent
        /\ EnvWarnings(RunResult) # <<>>

\* ------------------------------------------------------------------------
\* lib/json_utils.py : ScanResultBuilder, with the calls made on it recorded
\* ------------------------------------------------------------------------
MaxOps == 3          \* add_* calls made on the builder

Op(op, key, value) == [op |-> op, key |-> key, value |-> value]

InitHistory ==
    /\ BuilderInit("test") /\ IdleWifi /\ IdleConv /\ IdleNet
    /\ IdleParse /\ IdleDedup /\ IdleBt /\ IdleRun /\ IdleMerge /\ IdleIwCmds /\ IdleEnum
    /\ h_ops = <<>> /\ le_signals = <<>> /\ IdleArp

HistoryOnly ==
    UNCHANGED <<wvars, cvars, nvars, pvars, dvars, tvars, rvars, mvars, ivars, evars,
                le_signals, avars>>

\* builder.add_item(item)
HistAddItem ==
    /\ Len(h_ops) < MaxOps
    /\ \E item \in ItemValues :
          add_item(item) /\ h_ops' = Append(h_ops, Op("add_item", "", item))
    /\ HistoryOnly

\* builder.add_metadata(key, value)
HistAddMetadata ==
    /\ Len(h_ops) < MaxOps
    /\ \E key \in MetaKeys, value \in MetaValues :
          add_metadata(key, value) /\ h_ops' = Append(h_ops, Op("add_metadata", key, value))
    /\ HistoryOnly

\* builder.add_error(error)
HistAddError ==
    /\ Len(h_ops) < MaxOps
    /\ \E m \in Messages :
          add_error(m) /\ h_ops' = Append(h_ops, Op("add_error", "", m))
    /\ HistoryOnly

\* builder.add_warning(warning)
HistAddWarning ==
    /\ Len(h_ops) < MaxOps
    /\ \E m \in Messages :
          add_warning(m) /\ h_ops' = Append(h_ops, Op("add_warning", "", m))
    /\ HistoryOnly

\* builder.build(), once
HistBuild ==
    /\ envelopes = <<>>
    /\ build
    /\ UNCHANGED h_ops
    /\ HistoryOnly

NextHistory ==
    HistAddItem \/ HistAddMetadata \/ HistAddError \/ HistAddWarning \/ HistBuild

SpecHistory == InitHistory /\ [][NextHistory]_vars

\* the values passed to the calls of operation op, in call order
C33_Appended(op) ==
    LET sel == SelectSeq(h_ops, LAMBDA o : o.op = op)
    IN  [i \in DOMAIN sel |-> sel[i].value]

\* the keys set so far, each with the value of the last add_metadata for it
C33_LastSet ==
    LET idx(k) == {i \in DOMAIN h_ops : h_ops[i].op = "add_metadata" /\ h_ops[i].key = k}
        keys   == {k \in MetaKeys : idx(k) # {}}
    IN  [k \in keys |-> h_ops[CHOOSE i \in idx(k) : \A j \in idx(k) : j <= i].value]

C34_Left == tpc \in {"ble_dedup", "raised"} /\ proc # "none"

\* C34: on every path out of the LE-scan read loop (duration elapsed, end of
\* the child's output, exception while reading) terminate is requested on the
\* child; kill is issued exactly when the child has not exited within the
\* grace wait, and only after terminate; nothing is signalled while the loop
\* runs, and no path leaves the child running
C34_ChildIsStopped ==
    /\ proc = "running" => le_signals = <<>>
    /\ C34_Left =>
          /\ proc \in {"exited", "terminated", "killed"}
          /\ le_signals # <<>> /\ le_signals[1] = "terminate"
          /\ (proc = "killed") <=> (le_signals = <<"terminate", "kill">>)
          /\ (proc # "killed") <=> (le_signals = <<"terminate">>)

C34_Witness ==
    /\ tpc = "raised" /\ proc = "killed" /\ le_signals = <<"terminate", "kill">>

\* ---------------------------------------------------------------------
\* the order of the scans of run_bluetooth_scan (bluetooth_scanner.py:412-492)
\* ---------------------------------------------------------------------

\* the calls of the Termux bridge, and the scans made on adapters
C35_Termux == {i \in DOMAIN tcalls : tcalls[i].tool = "termux"}
C35_OnAdapters == DOMAIN tcalls \ C35_Termux

\* the scans the for loop makes when it runs to its end: per adapter, in the
\* order of the enumeration, the classic inquiry and then the LE scan if asked
C35_PerAdapter == IF scan_ble THEN 2 ELSE 1
C35_Plan ==
    [j \in 1..(C35_PerAdapter * Len(adapters)) |->
        [adapter |-> ((j - 1) \div C35_PerAdapter) + 1,
         tool |-> IF (j - 1) % C35_PerAdapter = 0 THEN "classic" ELSE "lescan"]]

\* C35: the adapters are scanned in enumeration order, classic inquiry before
\* LE scan on each; the Termux bridge is called at most once, after every
\* adapter scan, and by the end of the run it has been called exactly when no
\* adapter was found or no adapter scan produced a device
C35_FallbackOrder ==
    /\ Cardinality(C35_Termux) <= 1
    /\ \A i \in C35_Termux : i = Len(tcalls) /\ C35_OnAdapters = 1..(i - 1)
    /\ Cardinality(C35_OnAdapters) <= Len(C35_Plan)
    /\ \A i \in C35_OnAdapters :
          /\ i <= Len(C35_Plan)
          /\ tcalls[i].adapter = C35_Plan[i].adapter
          /\ tcalls[i].tool = C35_Plan[i].tool
    /\ C35_Termux # {} => C35_OnAdapters = DOMAIN C35_Plan
    /\ tpc \in {"build", "done"} =>
          /\ C35_OnAdapters = DOMAIN C35_Plan
          /\ C35_Termux # {} <=>
                \/ adapters = <<>>
                \/ \A i \in C35_OnAdapters : tcalls[i].n = 0

C35_Witness ==
    /\ tpc = "done" /\ Len(adapters) = 2 /\ scan_ble
    /\ Len(tcalls) = 5 /\ tcalls[5].tool = "termux"

\* a run with two adapters where the second finds a device: no Termux call
C35_WitnessNoFallback ==
    /\ tpc = "done" /\ Len(adapters) = 2 /\ C35_Termux = {}
    /\ tcalls[1].n = 0 /\ tcalls[Len(tcalls)].n > 0

\* ---------------------------------------------------------------------
\* get_arp_table (network_scanner.py:153-215)
\* ---------------------------------------------------------------------

MaxArp == 2          \* lines `ip neigh show` prints / rows of /proc/net/arp

\* A line of `ip neigh show` after split(): its first word, the number of its
\* words, the word after 'lladdr' if any, the last state word if any.
NeighLine(ip, parts, lladdr, state) ==
    [ip |-> ip, parts |-> parts, lladdr |-> lladdr, state |-> state]
NeighLines ==
    { NeighLine("10.0.0.1", 6, Some("aa:aa:aa:aa:aa:aa"), Some("REACHABLE")),
      NeighLine("10.0.0.2", 6, Some("bb:bb:bb:bb:bb:bb"), None),
      NeighLine("10.0.0.3", 4, None, Some("FAILED")),
      NeighLine("10.0.0.4", 5, None, Some("INCOMPLETE")),
      NeighLine("", 0, None, None) }
\* A row of /proc/net/arp after split(): the number of its words, the first
\* and the fourth
ArpRow(ip, parts, mac) == [ip |-> ip, parts |-> parts, mac |-> mac]
ArpRows ==
    { ArpRow("10.0.0.1", 6, "aa:aa:aa:aa:aa:aa"),
      ArpRow("10.0.0.5", 6, "cc:cc:cc:cc:cc:cc"),
      ArpRow("10.0.0.3", 6, "00:00:00:00:00:00"),
      ArpRow("10.0.0.6", 3, "") }

\* network_scanner.py:172-193: the entries of the lines of `ip neigh show`
RECURSIVE ParseNeigh(_)
ParseNeigh(lines) ==
    IF lines = <<>> THEN <<>>
    ELSE LET l == Head(lines)
         IN  (IF l.parts >= 5 /\ l.lladdr # None
              THEN <<[ip |-> l.ip, mac |-> TheVal(l.lladdr),
                      state |-> IF l.state = None THEN "unknown" ELSE TheVal(l.state)]>>
              ELSE <<>>) \o ParseNeigh(Tail(lines))

\* network_scanner.py:201-211: the entries of the rows of /proc/net/arp
RECURSIVE ParseProcArp(_)
ParseProcArp(rows) ==
    IF rows = <<>> THEN <<>>
    ELSE LET r == Head(rows)
         IN  (IF r.parts >= 4 /\ r.mac # "00:00:00:00:00:00"
              THEN <<[ip |-> r.ip, mac |-> r.mac, state |-> "ARP"]>>
              ELSE <<>>) \o ParseProcArp(Tail(rows))

InitArp ==
    /\ IdleBuilder /\ IdleWifi /\ IdleConv /\ IdleNet
    /\ IdleParse /\ IdleDedup /\ IdleBt /\ IdleRun /\ IdleMerge /\ IdleIwCmds /\ IdleEnum
    /\ IdleHist
    /\ apc = "neigh" /\ arp_entries = <<>>
    /\ a_how \in ToolOutcomes
    /\ a_stdout \in SeqsUpTo(NeighLines, MaxArp)
    /\ a_file \in {None} \cup {Some(rows) : rows \in SeqsUpTo(ArpRows, MaxArp)}

ArpOnly ==
    UNCHANGED <<bvars, wvars, cvars, nvars, pvars, dvars, tvars, rvars, mvars, ivars,
                evars, hvars>>

\* network_scanner.py:163-195: `ip neigh show`; its output is parsed after
\* exit status 0, FileNotFoundError and TimeoutExpired are passed over
ArpNeigh ==
    /\ apc = "neigh"
    /\ arp_entries' = IF a_how = "success" THEN arp_entries \o ParseNeigh(a_stdout)
                      ELSE arp_entries
    /\ apc' = "proc"
    /\ UNCHANGED <<a_how, a_stdout, a_file>>
    /\ ArpOnly

\* network_scanner.py:197-215: /proc/net/arp is read whatever the list holds,
\* its entries are appended, IOError is passed over; return arp_entries
ArpProc ==
    /\ apc = "proc"
    /\ arp_entries' = IF a_file = None THEN arp_entries
                      ELSE arp_entries \o ParseProcArp(TheVal(a_file))
    /\ apc' = "done"
    /\ UNCHANGED <<a_how, a_stdout, a_file>>
    /\ ArpOnly

NextArp == ArpNeigh \/ ArpProc

SpecArp == InitArp /\ [][NextArp]_vars

\* what `ip neigh show` yielded in this call
C36_FromNeigh == IF a_how = "success" THEN ParseNeigh(a_stdout) ELSE <<>>

\* C36: /proc/net/arp is a fallback for `ip neigh show`: when `ip neigh show`
\* yields at least one entry the returned table is exactly those entries, and
\* the returned table never lists the same IP address twice
C36_ProcArpIsFallback ==
    apc = "done" =>
        /\ C36_FromNeigh # <<>> => arp_entries = C36_FromNeigh
        /\ \A i, j \in DOMAIN arp_entries :
              arp_entries[i].ip = arp_entries[j].ip => i = j

\* ---------------------------------------------------------------------
\* the merge inside the read loop of scan_ble_devices
\* (bluetooth_scanner.py:252-279)
\* ---------------------------------------------------------------------

\* the device list after the first k lines of the run
C37_After(k) == BleOnLines(BleStart, SubSeq(dd_in, 1, k)).devices

\* the addresses of the advertisement lines (`<addr> <name>`, the name being
\* '(unknown)' or a real one) among the first k lines
C37_Read(k) == {Upper(dd_in[i].s) : i \in {j \in 1..k : AdvMatches(dd_in[j])}}

\* from the list before a line to the list after it: the entries stay where
\* they are with their address, a name changes only from '<unknown>' to a real
\* one, and at most one entry is appended, for the address of the line,
\* which was not listed
C37_Step(before, after, line) ==
    /\ Len(after) \in {Len(before), Len(before) + 1}
    /\ \A i \in DOMAIN before :
          /\ after[i].address = before[i].address
          /\ \/ after[i].name = before[i].name
             \/ before[i].name = "<unknown>" /\ after[i].name # "<unknown>"
    /\ Len(after) = Len(before) + 1 =>
          /\ AdvMatches(line)
          /\ after[Len(after)].address = Upper(line.s)
          /\ \A i \in DOMAIN before : before[i].address # Upper(line.s)

C38_Occurring(b) == {p_lines[i].kind : i \in C27_Markers(b)}

\* the entries of a list, as a set
C38_Entries(l) == {l[i] : i \in DOMAIN l}

\* what the parser makes of a block where the markers of M come once each in
\* the order WPA:, RSN:, Privacy
C38_InOrder(M) ==
    LET c0 == NewNetwork("BB:BB:BB:BB:BB:BB")
        c1 == IF "WPA:" \in M THEN IwSecurity(c0, "WPA:") ELSE c0
        c2 == IF "RSN:" \in M THEN IwSecurity(c1, "RSN:") ELSE c1
    IN  IF "Privacy" \in M THEN IwSecurity(c2, "Privacy") ELSE c2

\* C38: order independence of the security markers: the security value and
\* the set of encryption entries of a record of the iw parser depend only on
\* which marker lines (WPA:, RSN:, Privacy) occur in its block, so they are
\* those of the block that holds the same markers in the order WPA:, RSN:,
\* Privacy
C38_MarkerOrderIndependent ==
    (ParseDone /\ p_tool = "iw") =>
        \A k \in DOMAIN p_networks :
           LET r == p_networks[k]
               o == C38_InOrder(C38_Occurring(C28_Boundary(k)))
           IN  /\ r.security = o.security
               /\ C38_Entries(r.encryption) = C38_Entries(o.encryption)

====
